---- MODULE Spec2Model ----
(***************************************************************************)
(* MultiSendWithFees (web3/multisender.sol): the settlement engine that    *)
(* pays a batch of recipients in the native asset or in an ERC20 token,    *)
(* optionally charging a flat fee, with owner-only administration and      *)
(* recovery.                                                               *)
(*                                                                         *)
(* One transaction is one step.  An operation of the contract is an        *)
(* operator from the contract's state (a record, "world") and the call's   *)
(* arguments to a result [w, err]: err = "" and the new state, or the      *)
(* revert message and the state the call started from.  The code that a    *)
(* receiver of native value runs (accept, reject, call back into the       *)
(* engine) is the environment's choice, drawn with the call's inputs.      *)
(*                                                                         *)
(* Amounts are counted in units of 0.05 ether, so that the fee ceiling     *)
(* 0.1 ether is MAX_FLAT_FEE = 2.                                          *)
(***************************************************************************)
EXTENDS Integers, Sequences, FiniteSets, TLC

VARIABLES owner, feeCollector, flatFee, feesEnabled, status,
          balance, tokenBalance, last,
          minimal, minimalLast, helper, app

vars == <<owner, feeCollector, flatFee, feesEnabled, status,
          balance, tokenBalance, last, minimal, minimalLast, helper, app>>

(* the fee-enabled engine and what was observed of it *)
engine == <<owner, feeCollector, flatFee, feesEnabled, status, balance, tokenBalance, last>>

(* the minimal engine and what was observed of it; the client helper; the  *)
(* client's funding page                                                   *)
others == <<minimal, minimalLast, helper, app>>

-----------------------------------------------------------------------------
(* Program constants *)

NOT_ENTERED == 1

ENTERED == 2

MAX_RECIPIENTS == 200

MAX_FLAT_FEE == 2

(* Addresses.  alice is an externally owned account: it accepts every      *)
(* payment and runs no code.  bob and the deployer are contract accounts:  *)
(* on receipt of native value they may reject it or call the engine.       *)
NULL == "0x0"

DEPLOYER == "deployer"

ALICE == "alice"

BOB == "bob"

TOKEN == "token"

Accounts == {DEPLOYER, ALICE, BOB}

Contracts == {DEPLOYER, BOB}

-----------------------------------------------------------------------------
(* Bounds of the model *)

MaxN == 2

MaxAmount == 2

MaxExcess == 1

MaxBalance == 2

MaxTokenBalance == 1

MaxWallets == 2

-----------------------------------------------------------------------------
(* The contract's state as a record; events are the logs of the running    *)
(* transaction (discarded by a revert), trace is the record of what the    *)
(* transaction attempted (kept across reverts, for observation only).      *)

World ==
  [owner |-> owner, feeCollector |-> feeCollector, flatFee |-> flatFee,
   feesEnabled |-> feesEnabled, status |-> status, balance |-> balance,
   tokenBalance |-> tokenBalance, events |-> <<>>, trace |-> <<>>]

Event(name, who, amt, fee, n) ==
  [ev |-> name, who |-> who, amt |-> amt, fee |-> fee, n |-> n]

Entry(k, who, op, amt, ok, st, err) ==
  [k |-> k, who |-> who, op |-> op, amt |-> amt, ok |-> ok, st |-> st, err |-> err]

Note(w, t) == [w EXCEPT !.trace = Append(@, t)]

(* emit e: the event joins the logs, and the trace notes when *)
Emit(w, e) ==
  Note([w EXCEPT !.events = Append(@, e)], Entry("emit", e.who, e.ev, e.amt, TRUE, w.status, ""))

Ok(w) == [w |-> w, err |-> ""]

(* revert: the state of the frame's start w0; only the observation trace   *)
(* of w survives                                                           *)
Revert(w0, w, msg) == [w |-> [w0 EXCEPT !.trace = w.trace], err |-> msg]

(* F of the value of x *)
With(x, F(_)) == CHOOSE r \in {F(v) : v \in {x}} : TRUE

(* first, and Rest from the state first leaves unless first aborted *)
Then(first, Rest(_)) == With(first, LAMBDA f : IF f.err # "" THEN f ELSE Rest(f.w))

(* a call whose result is not looked at *)
RequireNothing(w0, call, msg) == Ok(call.w)

(* require(call, msg), call being [w, success] *)
Require(w0, call, msg) ==
  With(call, LAMBDA c : IF c.success THEN Ok(c.w) ELSE Revert(w0, c.w, msg))

(* What the accounts do in one transaction: rejecting receivers revert on  *)
(* receipt of native value; cb is the sequence of engine operations every  *)
(* contract receiver calls on receipt, before it accepts or rejects;       *)
(* pullOk is the result of the token's transferFrom; tokenRejecting are    *)
(* the recipients the token's transfer returns false for.                  *)
Quiet == [rejecting |-> {}, cb |-> <<>>, pullOk |-> TRUE, tokenRejecting |-> {}]


-----------------------------------------------------------------------------
(* Modifiers *)

(* modifiers that let every call through *)
onlyOwnerAnyone(w, sender) == TRUE

nonReentrantOpen(w) == TRUE

onlyOwner(w, sender) == sender = w.owner

nonReentrant(w) == w.status # ENTERED

Enter(w) == [w EXCEPT !.status = ENTERED]

(* an exit that leaves the guard as it is *)
ExitNothing(w) == w

Exit(w) == [w EXCEPT !.status = NOT_ENTERED]

(* a read that ignores feesEnabled *)
getCurrentFeeAlways(w) == w.flatFee

getCurrentFee(w) == IF w.feesEnabled THEN w.flatFee ELSE 0

-----------------------------------------------------------------------------
(* Native value transfer to an account, and what the account's code does   *)

RECURSIVE InnerCall(_, _, _, _)

(* the receiver's code calls the engine operations ops one after another;  *)
(* a failed inner call leaves the state as it was                          *)
RECURSIVE Callback(_, _, _, _)
Callback(w, by, ops, b) ==
  IF ops = <<>> THEN w
  ELSE With(InnerCall(w, by, Head(ops), b),
            LAMBDA r : Callback(Note(r.w, Entry("inner", by, Head(ops), 0, r.err = "",
                                                w.status, r.err)),
                                by, Tail(ops), b))

(* recipient.call{value: amount}(""): [w, success] *)
CallValue(w, to, amount, b) ==
  IF w.balance < amount
  THEN [w |-> Note(w, Entry("xfer", to, "", amount, FALSE, w.status, "")),
        success |-> FALSE]
  ELSE With(IF to \in Contracts
            THEN Callback([w EXCEPT !.balance = @ - amount], to, b.cb, b)
            ELSE [w EXCEPT !.balance = @ - amount],
            LAMBDA w2 :
              IF to \in Contracts /\ to \in b.rejecting
              THEN [w |-> Note([w EXCEPT !.trace = w2.trace],
                               Entry("xfer", to, "", amount, FALSE, w.status, "")),
                    success |-> FALSE]
              ELSE [w |-> Note(w2, Entry("xfer", to, "", amount, TRUE, w.status, "")),
                    success |-> TRUE])

(* a transfer whose failure goes unrecorded *)
SafeTransferETHSilent(w, recipient, amount, b) == CallValue(w, recipient, amount, b).w

SafeTransferETH(w, recipient, amount, b) ==
  With(CallValue(w, recipient, amount, b),
       LAMBDA c : IF c.success THEN c.w
                  ELSE Emit(c.w, Event("TransferFailed", recipient, amount, 0, 0)))

(* a fee collection that switches the fees off once the fee is paid *)
PayFeeOnce(w, feeAmount, b) ==
  IF feeAmount > 0
  THEN [SafeTransferETH(w, w.feeCollector, feeAmount, b) EXCEPT !.feesEnabled = FALSE]
  ELSE w

(* a fee collection that sends the fee twice *)
PayFeeTwice(w, feeAmount, b) ==
  IF feeAmount > 0
  THEN SafeTransferETH(SafeTransferETH(w, w.feeCollector, feeAmount, b),
                       w.feeCollector, feeAmount, b)
  ELSE w

(* if (feeAmount > 0) _safeTransferETH(feeCollector, feeAmount) *)
PayFee(w, feeAmount, b) ==
  IF feeAmount > 0 THEN SafeTransferETH(w, w.feeCollector, feeAmount, b) ELSE w

(* an engine that keeps the excess *)
RefundNothing(w, sender, excess, b) == w

(* if (excess > 0) _safeTransferETH(msg.sender, excess) *)
Refund(w, sender, excess, b) ==
  IF excess > 0 THEN SafeTransferETH(w, sender, excess, b) ELSE w

(* The token ledger (IERC20), as far as the engine's own balance goes *)
TransferFrom(w, amount, b) ==
  IF b.pullOk
  THEN [w |-> Note([w EXCEPT !.tokenBalance = @ + amount],
                   Entry("pull", "", "", amount, TRUE, w.status, "")),
        success |-> TRUE]
  ELSE [w |-> Note(w, Entry("pull", "", "", amount, FALSE, w.status, "")),
        success |-> FALSE]

Transfer(w, to, amount, b) ==
  IF to \notin b.tokenRejecting /\ w.tokenBalance >= amount
  THEN [w |-> Note([w EXCEPT !.tokenBalance = @ - amount],
                   Entry("tok", to, "", amount, TRUE, w.status, "")),
        success |-> TRUE]
  ELSE [w |-> Note(w, Entry("tok", to, "", amount, FALSE, w.status, "")),
        success |-> FALSE]

-----------------------------------------------------------------------------
(* Loops of the settlement operations.  A loop over positions lo..hi is    *)
(* evaluated as the loop over the first half followed by the loop over the *)
(* second half, which visits the positions in the order of the code.       *)

Mid(lo, hi) == (lo + hi) \div 2

(* a cap that turns away the batch of exactly MAX_RECIPIENTS *)
WithinLimitExclusive(recipients) == Len(recipients) < MAX_RECIPIENTS

(* recipients.length <= 200 *)
WithinLimit(recipients) == Len(recipients) <= MAX_RECIPIENTS

(* totalAmount += amounts[i] for i in lo..hi *)
RECURSIVE Sum(_, _, _)
Sum(amounts, lo, hi) ==
  IF lo > hi THEN 0
  ELSE IF lo = hi THEN amounts[lo]
  ELSE Sum(amounts, lo, Mid(lo, hi)) + Sum(amounts, Mid(lo, hi) + 1, hi)

Total(amounts) == Sum(amounts, 1, Len(amounts))

(* a validation that finds no fault *)
ValidateLoopNothing(recipients, amounts, lo, hi) == ""

(* the validation loop of the explicit-amount operations: the message of   *)
(* the first require that fails, "" when none does                         *)
RECURSIVE ValidateLoop(_, _, _, _)
ValidateLoop(recipients, amounts, lo, hi) ==
  IF lo > hi THEN ""
  ELSE IF lo = hi
  THEN IF recipients[lo] = NULL THEN "Invalid recipient address"
       ELSE IF ~(amounts[lo] > 0) THEN "Amount must be greater than zero"
       ELSE ""
  ELSE LET first == ValidateLoop(recipients, amounts, lo, Mid(lo, hi))
       IN  IF first # "" THEN first
           ELSE ValidateLoop(recipients, amounts, Mid(lo, hi) + 1, hi)

(* a loop that ends after its first recipient *)
EqualLoopETHFirstOnly(w0, w, recipients, lo, hi, amountPerRecipient, b) ==
  IF lo > hi THEN Ok(w)
  ELSE IF recipients[lo] = NULL THEN Revert(w0, w, "Invalid recipient address")
  ELSE Ok(SafeTransferETH(w, recipients[lo], amountPerRecipient, b))

RECURSIVE EqualLoopETH(_, _, _, _, _, _, _)
EqualLoopETH(w0, w, recipients, lo, hi, amountPerRecipient, b) ==
  IF lo > hi THEN Ok(w)
  ELSE IF lo = hi
  THEN IF recipients[lo] = NULL THEN Revert(w0, w, "Invalid recipient address")
       ELSE Ok(SafeTransferETH(w, recipients[lo], amountPerRecipient, b))
  ELSE Then(EqualLoopETH(w0, w, recipients, lo, Mid(lo, hi), amountPerRecipient, b),
            LAMBDA w1 : EqualLoopETH(w0, w1, recipients, Mid(lo, hi) + 1, hi,
                                     amountPerRecipient, b))

(* the payouts never abort the call: err stays "" *)
RECURSIVE DifferentLoopETH(_, _, _, _, _, _)
DifferentLoopETH(w, recipients, amounts, lo, hi, b) ==
  IF lo > hi THEN Ok(w)
  ELSE IF lo = hi THEN Ok(SafeTransferETH(w, recipients[lo], amounts[lo], b))
  ELSE Then(DifferentLoopETH(w, recipients, amounts, lo, Mid(lo, hi), b),
            LAMBDA w1 : DifferentLoopETH(w1, recipients, amounts, Mid(lo, hi) + 1, hi, b))

RECURSIVE EqualLoopERC20(_, _, _, _, _, _, _)
EqualLoopERC20(w0, w, recipients, lo, hi, amountPerRecipient, b) ==
  IF lo > hi THEN Ok(w)
  ELSE IF lo = hi
  THEN IF recipients[lo] = NULL THEN Revert(w0, w, "Invalid recipient address")
       ELSE Require(w0, Transfer(w, recipients[lo], amountPerRecipient, b), "Transfer failed")
  ELSE Then(EqualLoopERC20(w0, w, recipients, lo, Mid(lo, hi), amountPerRecipient, b),
            LAMBDA w1 : EqualLoopERC20(w0, w1, recipients, Mid(lo, hi) + 1, hi,
                                       amountPerRecipient, b))

RECURSIVE DifferentLoopERC20(_, _, _, _, _, _, _)
DifferentLoopERC20(w0, w, recipients, amounts, lo, hi, b) ==
  IF lo > hi THEN Ok(w)
  ELSE IF lo = hi
  THEN Require(w0, Transfer(w, recipients[lo], amounts[lo], b), "Transfer failed")
  ELSE Then(DifferentLoopERC20(w0, w, recipients, amounts, lo, Mid(lo, hi), b),
            LAMBDA w1 : DifferentLoopERC20(w0, w1, recipients, amounts, Mid(lo, hi) + 1,
                                           hi, b))

-----------------------------------------------------------------------------
(* ETH transfers *)

sendEqualAmountsETH(w0, sender, value, recipients, b) ==
  LET w1 == [w0 EXCEPT !.balance = @ + value]
      feeAmount == IF w1.feesEnabled THEN w1.flatFee ELSE 0
      totalForRecipients == value - feeAmount
      amountPerRecipient == totalForRecipients \div Len(recipients)
  IN  IF ~nonReentrant(w1) THEN Revert(w0, w1, "ReentrancyGuard: reentrant call")
      ELSE IF ~(Len(recipients) > 0) THEN Revert(w0, w1, "No recipients provided")
      ELSE IF ~WithinLimit(recipients) THEN Revert(w0, w1, "Too many recipients")
      ELSE IF ~(value > 0) THEN Revert(w0, w1, "No ETH sent")
      ELSE IF ~(value > feeAmount) THEN Revert(w0, w1, "Insufficient ETH for fee")
      ELSE IF ~(amountPerRecipient > 0) THEN Revert(w0, w1, "Amount per recipient is zero")
      ELSE Then(EqualLoopETH(w0, PayFee(Enter(w1), feeAmount, b), recipients, 1,
                             Len(recipients), amountPerRecipient, b),
                LAMBDA w4 : Ok(Exit(Emit(w4, Event("MultiTransferETH", sender, value,
                                                   feeAmount, Len(recipients))))))

sendDifferentAmountsETH(w0, sender, value, recipients, amounts, b) ==
  LET w1 == [w0 EXCEPT !.balance = @ + value]
      invalid == ValidateLoop(recipients, amounts, 1, Len(amounts))
      totalAmount == Total(amounts)
      feeAmount == IF w1.feesEnabled THEN w1.flatFee ELSE 0
      totalRequired == totalAmount + feeAmount
  IN  IF ~nonReentrant(w1) THEN Revert(w0, w1, "ReentrancyGuard: reentrant call")
      ELSE IF ~(Len(recipients) > 0) THEN Revert(w0, w1, "No recipients provided")
      ELSE IF ~WithinLimit(recipients) THEN Revert(w0, w1, "Too many recipients")
      ELSE IF ~(Len(recipients) = Len(amounts)) THEN Revert(w0, w1, "Arrays length mismatch")
      ELSE IF invalid # "" THEN Revert(w0, w1, invalid)
      ELSE IF ~(value >= totalRequired) THEN Revert(w0, w1, "Insufficient ETH sent")
      ELSE Then(DifferentLoopETH(PayFee(Enter(w1), feeAmount, b), recipients, amounts, 1,
                                 Len(recipients), b),
                LAMBDA w4 : Ok(Exit(Emit(Refund(w4, sender, value - totalRequired, b),
                                         Event("MultiTransferETH", sender, totalAmount,
                                               feeAmount, Len(recipients))))))

-----------------------------------------------------------------------------
(* ERC20 transfers *)

sendEqualAmountsERC20(w0, sender, value, token, recipients, totalAmount, b) ==
  LET w1 == [w0 EXCEPT !.balance = @ + value]
      feeAmount == IF w1.feesEnabled THEN w1.flatFee ELSE 0
      amountPerRecipient == totalAmount \div Len(recipients)
  IN  IF ~nonReentrant(w1) THEN Revert(w0, w1, "ReentrancyGuard: reentrant call")
      ELSE IF ~(token # NULL) THEN Revert(w0, w1, "Invalid token address")
      ELSE IF ~(Len(recipients) > 0) THEN Revert(w0, w1, "No recipients provided")
      ELSE IF ~WithinLimit(recipients) THEN Revert(w0, w1, "Too many recipients")
      ELSE IF ~(totalAmount > 0) THEN Revert(w0, w1, "Amount must be greater than zero")
      ELSE IF ~(value >= feeAmount) THEN Revert(w0, w1, "Insufficient ETH for fee")
      ELSE IF ~(amountPerRecipient > 0) THEN Revert(w0, w1, "Amount per recipient is zero")
      ELSE Then(Require(w0, TransferFrom(PayFee(Enter(w1), feeAmount, b), totalAmount, b),
                        "Token transfer failed"),
                LAMBDA w3 :
                  Then(EqualLoopERC20(w0, w3, recipients, 1, Len(recipients),
                                      amountPerRecipient, b),
                       LAMBDA w4 :
                         Ok(Exit(Emit(Refund(w4, sender, value - feeAmount, b),
                                      Event("MultiTransferERC20", sender, totalAmount,
                                            feeAmount, Len(recipients)))))))

sendDifferentAmountsERC20(w0, sender, value, token, recipients, amounts, b) ==
  LET w1 == [w0 EXCEPT !.balance = @ + value]
      feeAmount == IF w1.feesEnabled THEN w1.flatFee ELSE 0
      invalid == ValidateLoop(recipients, amounts, 1, Len(amounts))
      totalAmount == Total(amounts)
  IN  IF ~nonReentrant(w1) THEN Revert(w0, w1, "ReentrancyGuard: reentrant call")
      ELSE IF ~(token # NULL) THEN Revert(w0, w1, "Invalid token address")
      ELSE IF ~(Len(recipients) > 0) THEN Revert(w0, w1, "No recipients provided")
      ELSE IF ~WithinLimit(recipients) THEN Revert(w0, w1, "Too many recipients")
      ELSE IF ~(Len(recipients) = Len(amounts)) THEN Revert(w0, w1, "Arrays length mismatch")
      ELSE IF ~(value >= feeAmount) THEN Revert(w0, w1, "Insufficient ETH for fee")
      ELSE IF invalid # "" THEN Revert(w0, w1, invalid)
      ELSE Then(Require(w0, TransferFrom(PayFee(Enter(w1), feeAmount, b), totalAmount, b),
                        "Token transfer failed"),
                LAMBDA w3 :
                  Then(DifferentLoopERC20(w0, w3, recipients, amounts, 1, Len(recipients), b),
                       LAMBDA w4 :
                         Ok(Exit(Emit(Refund(w4, sender, value - feeAmount, b),
                                      Event("MultiTransferERC20", sender, totalAmount,
                                            feeAmount, Len(recipients)))))))

-----------------------------------------------------------------------------
(* Fee management *)

(* a switch that only switches the fees on *)
toggleFeesOn(w0, sender) ==
  IF ~onlyOwner(w0, sender) THEN Revert(w0, w0, "Caller is not the owner")
  ELSE Ok(Emit([w0 EXCEPT !.feesEnabled = TRUE], Event("FeesToggled", NULL, 1, 0, 0)))

toggleFees(w0, sender) ==
  IF ~onlyOwner(w0, sender) THEN Revert(w0, w0, "Caller is not the owner")
  ELSE LET w1 == [w0 EXCEPT !.feesEnabled = ~@]
       IN  Ok(Emit(w1, Event("FeesToggled", NULL, IF w1.feesEnabled THEN 1 ELSE 0, 0, 0)))

(* a setter that takes any fee *)
setFlatFeeUnchecked(w0, sender, newFee) ==
  IF ~onlyOwner(w0, sender) THEN Revert(w0, w0, "Caller is not the owner")
  ELSE Ok(Emit([w0 EXCEPT !.flatFee = newFee],
               Event("FlatFeeUpdated", NULL, newFee, 0, 0)))

setFlatFee(w0, sender, newFee) ==
  IF ~onlyOwner(w0, sender) THEN Revert(w0, w0, "Caller is not the owner")
  ELSE IF ~(newFee <= MAX_FLAT_FEE) THEN Revert(w0, w0, "Fee too high (max 0.1 ETH)")
  ELSE Ok(Emit([w0 EXCEPT !.flatFee = newFee],
               Event("FlatFeeUpdated", NULL, newFee, 0, 0)))

(* a setter that takes any collector *)
setFeeCollectorUnchecked(w0, sender, newCollector) ==
  IF ~onlyOwner(w0, sender) THEN Revert(w0, w0, "Caller is not the owner")
  ELSE Ok(Emit([w0 EXCEPT !.feeCollector = newCollector],
               Event("FeeCollectorUpdated", newCollector, 0, 0, 0)))

setFeeCollector(w0, sender, newCollector) ==
  IF ~onlyOwner(w0, sender) THEN Revert(w0, w0, "Caller is not the owner")
  ELSE IF ~(newCollector # NULL) THEN Revert(w0, w0, "Invalid fee collector")
  ELSE Ok(Emit([w0 EXCEPT !.feeCollector = newCollector],
               Event("FeeCollectorUpdated", newCollector, 0, 0, 0)))

-----------------------------------------------------------------------------
(* Recovery *)

(* a withdrawal that takes the whole balance whatever amount is asked for *)
withdrawETHEntire(w0, sender, amount, b) ==
  IF ~onlyOwner(w0, sender) THEN Revert(w0, w0, "Caller is not the owner")
  ELSE IF ~nonReentrant(w0) THEN Revert(w0, w0, "ReentrancyGuard: reentrant call")
  ELSE IF ~(w0.balance > 0) THEN Revert(w0, w0, "No funds to withdraw")
  ELSE IF ~(amount <= w0.balance) THEN Revert(w0, w0, "Insufficient contract balance")
  ELSE Then(Require(w0, CallValue(Enter(w0), w0.owner, w0.balance, b), "Withdrawal failed"),
            LAMBDA w2 : Ok(Exit(Emit(w2, Event("Withdrawal", w0.owner, w0.balance, 0, 0)))))

withdrawETH(w0, sender, amount, b) ==
  LET bal == w0.balance
      withdrawAmount == IF amount = 0 THEN bal ELSE amount
  IN  IF ~onlyOwner(w0, sender) THEN Revert(w0, w0, "Caller is not the owner")
      ELSE IF ~nonReentrant(w0) THEN Revert(w0, w0, "ReentrancyGuard: reentrant call")
      ELSE IF ~(bal > 0) THEN Revert(w0, w0, "No funds to withdraw")
      ELSE IF ~(withdrawAmount <= bal) THEN Revert(w0, w0, "Insufficient contract balance")
      ELSE Then(Require(w0, CallValue(Enter(w0), w0.owner, withdrawAmount, b),
                        "Withdrawal failed"),
                LAMBDA w2 : Ok(Exit(Emit(w2, Event("Withdrawal", w0.owner, withdrawAmount,
                                                   0, 0)))))

(* a token withdrawal that does not compare the amount with the balance *)
withdrawERC20Unchecked(w0, sender, token, amount, b) ==
  IF ~onlyOwner(w0, sender) THEN Revert(w0, w0, "Caller is not the owner")
  ELSE IF ~nonReentrant(w0) THEN Revert(w0, w0, "ReentrancyGuard: reentrant call")
  ELSE IF ~(token # NULL) THEN Revert(w0, w0, "Invalid token address")
  ELSE IF ~(w0.tokenBalance > 0) THEN Revert(w0, w0, "No tokens to withdraw")
  ELSE Then(Require(w0, Transfer(Enter(w0), w0.owner,
                                 IF amount = 0 THEN w0.tokenBalance ELSE amount, b),
                    "Token withdrawal failed"),
            LAMBDA w2 : Ok(Exit(w2)))

withdrawERC20(w0, sender, token, amount, b) ==
  LET bal == w0.tokenBalance
      withdrawAmount == IF amount = 0 THEN bal ELSE amount
  IN  IF ~onlyOwner(w0, sender) THEN Revert(w0, w0, "Caller is not the owner")
      ELSE IF ~nonReentrant(w0) THEN Revert(w0, w0, "ReentrancyGuard: reentrant call")
      ELSE IF ~(token # NULL) THEN Revert(w0, w0, "Invalid token address")
      ELSE IF ~(bal > 0) THEN Revert(w0, w0, "No tokens to withdraw")
      ELSE IF ~(withdrawAmount <= bal) THEN Revert(w0, w0, "Insufficient token balance")
      ELSE Then(Require(w0, Transfer(Enter(w0), w0.owner, withdrawAmount, b),
                        "Token withdrawal failed"),
                LAMBDA w2 : Ok(Exit(w2)))

(* receive() external payable {} *)
receive(w0, value) == Ok([w0 EXCEPT !.balance = @ + value])

-----------------------------------------------------------------------------
(* The call a contract receiver makes into the engine while it is being    *)
(* paid: msg.sender is the receiver, no value is attached, and no further  *)
(* callback is made from inside it.                                        *)

InnerCall(w, by, op, b) ==
  LET q == [b EXCEPT !.cb = <<>>]
  IN  CASE op = "sendEqualAmountsETH" -> sendEqualAmountsETH(w, by, 0, <<by>>, q)
        [] op = "sendDifferentAmountsETH" ->
             sendDifferentAmountsETH(w, by, 0, <<by>>, <<1>>, q)
        [] op = "sendEqualAmountsERC20" ->
             sendEqualAmountsERC20(w, by, 0, TOKEN, <<by>>, 1, q)
        [] op = "sendDifferentAmountsERC20" ->
             sendDifferentAmountsERC20(w, by, 0, TOKEN, <<by>>, <<1>>, q)
        [] op = "withdrawETH" -> withdrawETH(w, by, 0, q)
        [] op = "withdrawERC20" -> withdrawERC20(w, by, TOKEN, 0, q)
        [] op = "toggleFees" -> toggleFees(w, by)
        [] op = "setFlatFee" -> setFlatFee(w, by, (w.flatFee + 1) % (MAX_FLAT_FEE + 1))
        [] op = "setFeeCollector" -> setFeeCollector(w, by, by)

-----------------------------------------------------------------------------
(* The minimal engine, contract MultiSend: an owner, the guard and the     *)
(* native balance; no fee, no token. Its state is a record with the fields *)
(* owner, status, balance, events and trace, on which onlyOwner,           *)
(* nonReentrant, Enter, Exit, Emit and Revert work as on the fee-enabled   *)
(* engine's.                                                               *)

RECURSIVE MinimalInnerCall(_, _, _, _)

(* what a contract receiver does on receipt of value from the minimal      *)
(* engine: the calls of its script, made into the minimal engine           *)
RECURSIVE MinimalCallback(_, _, _, _)
MinimalCallback(w, by, ops, b) ==
  IF ops = <<>> THEN w
  ELSE With(MinimalInnerCall(w, by, Head(ops), b),
            LAMBDA r : MinimalCallback(Note(r.w, Entry("inner", by, Head(ops), 0, r.err = "",
                                                       w.status, r.err)),
                                       by, Tail(ops), b))

(* recipient.call{value: amount}("") made by the minimal engine *)
MinimalCallValue(w, to, amount, b) ==
  IF w.balance < amount
  THEN [w |-> Note(w, Entry("xfer", to, "", amount, FALSE, w.status, "")),
        success |-> FALSE]
  ELSE With(IF to \in Contracts
            THEN MinimalCallback([w EXCEPT !.balance = @ - amount], to, b.cb, b)
            ELSE [w EXCEPT !.balance = @ - amount],
            LAMBDA w2 :
              IF to \in Contracts /\ to \in b.rejecting
              THEN [w |-> Note([w EXCEPT !.trace = w2.trace],
                               Entry("xfer", to, "", amount, FALSE, w.status, "")),
                    success |-> FALSE]
              ELSE [w |-> Note(w2, Entry("xfer", to, "", amount, TRUE, w.status, "")),
                    success |-> TRUE])

(* a transfer of MultiSend whose failure goes unrecorded *)
SafeTransferSilent(w, recipient, amount, b) == MinimalCallValue(w, recipient, amount, b).w

(* _safeTransfer of MultiSend *)
SafeTransfer(w, recipient, amount, b) ==
  With(MinimalCallValue(w, recipient, amount, b),
       LAMBDA c : IF c.success THEN c.w
                  ELSE Emit(c.w, Event("TransferFailed", recipient, amount, 0, 0)))

RECURSIVE EqualLoop(_, _, _, _, _, _, _)
EqualLoop(w0, w, recipients, lo, hi, amountPerRecipient, b) ==
  IF lo > hi THEN Ok(w)
  ELSE IF lo = hi
  THEN IF recipients[lo] = NULL THEN Revert(w0, w, "Invalid recipient address")
       ELSE Ok(SafeTransfer(w, recipients[lo], amountPerRecipient, b))
  ELSE Then(EqualLoop(w0, w, recipients, lo, Mid(lo, hi), amountPerRecipient, b),
            LAMBDA w1 : EqualLoop(w0, w1, recipients, Mid(lo, hi) + 1, hi,
                                  amountPerRecipient, b))

RECURSIVE DifferentLoop(_, _, _, _, _, _)
DifferentLoop(w, recipients, amounts, lo, hi, b) ==
  IF lo > hi THEN Ok(w)
  ELSE IF lo = hi THEN Ok(SafeTransfer(w, recipients[lo], amounts[lo], b))
  ELSE Then(DifferentLoop(w, recipients, amounts, lo, Mid(lo, hi), b),
            LAMBDA w1 : DifferentLoop(w1, recipients, amounts, Mid(lo, hi) + 1, hi, b))

sendEqualAmounts(w0, sender, value, recipients, b) ==
  LET w1 == [w0 EXCEPT !.balance = @ + value]
      amountPerRecipient == value \div Len(recipients)
  IN  IF ~nonReentrant(w1) THEN Revert(w0, w1, "ReentrancyGuard: reentrant call")
      ELSE IF ~(Len(recipients) > 0) THEN Revert(w0, w1, "No recipients provided")
      ELSE IF ~WithinLimit(recipients) THEN Revert(w0, w1, "Too many recipients")
      ELSE IF ~(value > 0) THEN Revert(w0, w1, "No ETH sent")
      ELSE IF ~(amountPerRecipient > 0) THEN Revert(w0, w1, "Amount per recipient is zero")
      ELSE Then(EqualLoop(w0, Enter(w1), recipients, 1, Len(recipients),
                          amountPerRecipient, b),
                LAMBDA w4 : Ok(Exit(Emit(w4, Event("MultiTransfer", sender, value, 0,
                                                   Len(recipients))))))

(* an explicit-amount operation that keeps the excess *)
sendDifferentAmountsKeeping(w0, sender, value, recipients, amounts, b) ==
  LET w1 == [w0 EXCEPT !.balance = @ + value]
      invalid == ValidateLoop(recipients, amounts, 1, Len(amounts))
      totalAmount == Total(amounts)
  IN  IF ~nonReentrant(w1) THEN Revert(w0, w1, "ReentrancyGuard: reentrant call")
      ELSE IF ~(Len(recipients) > 0) THEN Revert(w0, w1, "No recipients provided")
      ELSE IF ~WithinLimit(recipients) THEN Revert(w0, w1, "Too many recipients")
      ELSE IF ~(Len(recipients) = Len(amounts)) THEN Revert(w0, w1, "Arrays length mismatch")
      ELSE IF invalid # "" THEN Revert(w0, w1, invalid)
      ELSE IF ~(value >= totalAmount) THEN Revert(w0, w1, "Insufficient ETH sent")
      ELSE Then(DifferentLoop(Enter(w1), recipients, amounts, 1, Len(recipients), b),
                LAMBDA w4 : Ok(Exit(Emit(w4, Event("MultiTransfer", sender, totalAmount, 0,
                                                   Len(recipients))))))

(* the summary event is emitted before the refund of the excess *)
sendDifferentAmounts(w0, sender, value, recipients, amounts, b) ==
  LET w1 == [w0 EXCEPT !.balance = @ + value]
      invalid == ValidateLoop(recipients, amounts, 1, Len(amounts))
      totalAmount == Total(amounts)
  IN  IF ~nonReentrant(w1) THEN Revert(w0, w1, "ReentrancyGuard: reentrant call")
      ELSE IF ~(Len(recipients) > 0) THEN Revert(w0, w1, "No recipients provided")
      ELSE IF ~WithinLimit(recipients) THEN Revert(w0, w1, "Too many recipients")
      ELSE IF ~(Len(recipients) = Len(amounts)) THEN Revert(w0, w1, "Arrays length mismatch")
      ELSE IF invalid # "" THEN Revert(w0, w1, invalid)
      ELSE IF ~(value >= totalAmount) THEN Revert(w0, w1, "Insufficient ETH sent")
      ELSE Then(DifferentLoop(Enter(w1), recipients, amounts, 1, Len(recipients), b),
                LAMBDA w4 :
                  With(Emit(w4, Event("MultiTransfer", sender, totalAmount, 0,
                                      Len(recipients))),
                       LAMBDA w5 :
                         Ok(Exit(IF value - totalAmount > 0
                                 THEN SafeTransfer(w5, sender, value - totalAmount, b)
                                 ELSE w5))))

withdraw(w0, sender, amount, b) ==
  LET bal == w0.balance
      withdrawAmount == IF amount = 0 THEN bal ELSE amount
  IN  IF ~onlyOwner(w0, sender) THEN Revert(w0, w0, "Caller is not the owner")
      ELSE IF ~nonReentrant(w0) THEN Revert(w0, w0, "ReentrancyGuard: reentrant call")
      ELSE IF ~(bal > 0) THEN Revert(w0, w0, "No funds to withdraw")
      ELSE IF ~(withdrawAmount <= bal) THEN Revert(w0, w0, "Insufficient contract balance")
      ELSE Then(Require(w0, MinimalCallValue(Enter(w0), w0.owner, withdrawAmount, b),
                        "Withdrawal failed"),
                LAMBDA w2 : Ok(Exit(Emit(w2, Event("Withdrawal", w0.owner, withdrawAmount,
                                                   0, 0)))))

(* The call a contract receiver makes into the minimal engine while it is  *)
(* being paid. The scripts name the operations of the fee-enabled engine:  *)
(* the receiver calls the operation of the minimal engine that corresponds *)
(* to it, and a call of an operation the minimal engine does not have      *)
(* fails, the contract having no fallback function.                        *)
MinimalInnerCall(w, by, op, b) ==
  LET q == [b EXCEPT !.cb = <<>>]
  IN  CASE op = "sendEqualAmountsETH" -> sendEqualAmounts(w, by, 0, <<by>>, q)
        [] op = "sendDifferentAmountsETH" -> sendDifferentAmounts(w, by, 0, <<by>>, <<1>>, q)
        [] op = "withdrawETH" -> withdraw(w, by, 0, q)
        [] OTHER -> Revert(w, w, "no such function")

-----------------------------------------------------------------------------
(* Inputs *)

Range(f) == {f[i] : i \in DOMAIN f}

(* batches of n recipients: one address throughout, or alice with bob or   *)
(* the null address at one position                                        *)
RecipientLists(n) ==
  {[i \in 1..n |-> a] : a \in {ALICE, BOB}}
    \cup {[i \in 1..n |-> IF i = k[1] THEN k[2] ELSE ALICE] : k \in (1..n) \X {BOB, NULL}}

(* amounts for n recipients: one amount throughout, or 1 with another      *)
(* amount (0 included) at one position                                     *)
AmountLists(n) ==
  {[i \in 1..n |-> a] : a \in 1..MaxAmount}
    \cup {[i \in 1..n |-> IF i = k[1] THEN k[2] ELSE 1] :
            k \in (1..n) \X ({0} \cup 2..MaxAmount)}

Sizes == 0..MaxN

(* a batch at the cap and one beyond it: payments of one unit to alice *)
LongSizes == {MAX_RECIPIENTS, MAX_RECIPIENTS + 1}

Long(n, x) == [i \in 1..n |-> x]

(* explicit-amount batches: recipients and amounts of one length, of       *)
(* lengths that differ by one, and the long ones                           *)
Batches ==
  UNION {RecipientLists(n) \X AmountLists(n) : n \in Sizes}
    \cup UNION {RecipientLists(n) \X {Long(n + 1, 1)} : n \in Sizes}
    \cup UNION {RecipientLists(n) \X {Long(n - 1, 1)} : n \in Sizes \ {0}}
    \cup {<<Long(n, ALICE), Long(n, 1)>> : n \in LongSizes}

(* equal-split batches with the amount to split among them *)
EqualBatches ==
  UNION {RecipientLists(n) \X (0..(n + 1)) : n \in Sizes}
    \cup UNION {{Long(n, ALICE)} \X ((n - 1)..(n + 1)) : n \in LongSizes}

(* the account that sends the settlement calls: a contract account, which  *)
(* behaves as an externally owned one when it neither rejects nor calls    *)
Senders == {BOB}

GuardedOps ==
  <<"sendEqualAmountsETH", "sendDifferentAmountsETH", "sendEqualAmountsERC20",
    "sendDifferentAmountsERC20", "withdrawETH", "withdrawERC20">>

CallbackScripts ==
  {<<>>, GuardedOps, <<"toggleFees">>, <<"setFlatFee">>, <<"setFeeCollector">>}

(* the behaviours of the accounts that may be paid native value *)
Behaviours(payees) ==
  {[Quiet EXCEPT !.rejecting = R, !.cb = c] :
     R \in SUBSET (payees \cap Contracts),
     c \in IF payees \cap Contracts = {} THEN {<<>>} ELSE CallbackScripts}

(* the same, and the token failing: in the pull, or in the transfer to     *)
(* some of tokenPayees                                                     *)
TokenBehaviours(payees, tokenPayees) ==
  Behaviours(payees)
    \cup {[Quiet EXCEPT !.pullOk = FALSE]}
    \cup {[Quiet EXCEPT !.tokenRejecting = T] :
            T \in (SUBSET (tokenPayees \cap Contracts)) \ {{}}}

(* a call that reverts whatever the accounts do (q: its result with quiet  *)
(* accounts) is made with quiet accounts only                              *)
Relevant(q, bs) == IF q.err # "" THEN {Quiet} ELSE bs

(* the long batches are sent with quiet accounts only *)
Short(recipients, bs) == IF Len(recipients) >= MAX_RECIPIENTS THEN {Quiet} ELSE bs

(* the native value sent with a call that needs required: one less, just   *)
(* enough, and up to MaxExcess more                                        *)
Values(required) == {v \in (required - 1)..(required + MaxExcess) : v >= 0}

-----------------------------------------------------------------------------
(* The transaction observed last: its call, its outcome and the state it   *)
(* started from.                                                           *)

Blank ==
  [owner |-> NULL, feeCollector |-> NULL, flatFee |-> 0, feesEnabled |-> FALSE,
   status |-> 0, balance |-> 0, tokenBalance |-> 0, events |-> <<>>, trace |-> <<>>]

NoCall ==
  [op |-> "none", sender |-> NULL, value |-> 0, token |-> NULL, recipients |-> <<>>,
   amounts |-> <<>>, amount |-> 0, target |-> NULL, b |-> Quiet, err |-> "",
   events |-> <<>>, trace |-> <<>>, pre |-> Blank]

Call(op, sender, value) == [NoCall EXCEPT !.op = op, !.sender = sender, !.value = value]

Idle == owner # NULL /\ last.op = "none"

(* the transaction's result becomes the contract's state *)
CommitEngine(call, r) ==
  /\ r.w.balance <= MaxBalance
  /\ r.w.tokenBalance <= MaxTokenBalance
  /\ owner' = r.w.owner
  /\ feeCollector' = r.w.feeCollector
  /\ flatFee' = r.w.flatFee
  /\ feesEnabled' = r.w.feesEnabled
  /\ status' = r.w.status
  /\ balance' = r.w.balance
  /\ tokenBalance' = r.w.tokenBalance
  /\ last' = [call EXCEPT !.err = r.err, !.events = IF r.err = "" THEN r.w.events ELSE <<>>,
                          !.trace = r.w.trace, !.pre = World]

(* a transaction sent to the fee-enabled engine by an account of its own *)
Commit(call, r) == CommitEngine(call, r) /\ UNCHANGED others

-----------------------------------------------------------------------------
(* Actions: deployment, then one transaction at a time *)

(* the minimal engine's state as a record, like World *)
MinimalWorld ==
  [owner |-> minimal.owner, status |-> minimal.status, balance |-> minimal.balance,
   events |-> <<>>, trace |-> <<>>]

MinimalBlank == [owner |-> NULL, status |-> 0, balance |-> 0]

MinimalNoCall ==
  [NoCall EXCEPT !.pre = [owner |-> NULL, status |-> 0, balance |-> 0,
                          events |-> <<>>, trace |-> <<>>]]

(* the client helper before it is called *)
HelperIdle ==
  [pc |-> "idle", fee |-> 0, recipients |-> <<>>, totalAmount |-> 0, success |-> FALSE]

(* the funding page after handleGenerate, a signer being connected:        *)
(* MaxWallets wallets, none funded, no funding loop running; loops are the *)
(* fundAllWallets calls in progress, each with its own updatedWallets and  *)
(* its position; confirmed are the wallets a funding transaction to which  *)
(* has been mined, and overlapped tells whether two loops have been in     *)
(* progress at once (both for observation only)                            *)
AppStart ==
  [wallets |-> [i \in 1..MaxWallets |-> [status |-> "idle", txHash |-> FALSE]],
   isFunding |-> FALSE,
   loops |-> <<>>,
   confirmed |-> {},
   overlapped |-> FALSE]

Init ==
  /\ owner = NULL
  /\ feeCollector = NULL
  /\ flatFee = 0
  /\ feesEnabled = FALSE
  /\ status = 0
  /\ balance = 0
  /\ tokenBalance = 0
  /\ last = NoCall
  /\ minimal = MinimalBlank
  /\ minimalLast = MinimalNoCall
  /\ helper = HelperIdle
  /\ app = AppStart

(* a constructor that records the fee collector as owner *)
constructorCollectorOwns(w0, sender, feeCollector_, flatFee_) ==
  IF ~(feeCollector_ # NULL) THEN Revert(w0, w0, "Invalid fee collector")
  ELSE IF ~(flatFee_ <= MAX_FLAT_FEE) THEN Revert(w0, w0, "Fee too high (max 0.1 ETH)")
  ELSE Ok([w0 EXCEPT !.owner = feeCollector_, !.feeCollector = feeCollector_,
                     !.flatFee = flatFee_, !.feesEnabled = FALSE,
                     !.status = NOT_ENTERED])

constructor(w0, sender, feeCollector_, flatFee_) ==
  IF ~(feeCollector_ # NULL) THEN Revert(w0, w0, "Invalid fee collector")
  ELSE IF ~(flatFee_ <= MAX_FLAT_FEE) THEN Revert(w0, w0, "Fee too high (max 0.1 ETH)")
  ELSE Ok([w0 EXCEPT !.owner = sender, !.feeCollector = feeCollector_,
                     !.flatFee = flatFee_, !.feesEnabled = FALSE,
                     !.status = NOT_ENTERED])

Deploy ==
  /\ owner = NULL
  /\ last.op = "none"
  /\ \E feeCollector_ \in {NULL, DEPLOYER, BOB}, flatFee_ \in 0..(MAX_FLAT_FEE + 1) :
       Commit([Call("constructor", DEPLOYER, 0) EXCEPT !.target = feeCollector_,
                                                        !.amount = flatFee_],
              constructor(World, DEPLOYER, feeCollector_, flatFee_))

SendEqualAmountsETH ==
  /\ Idle
  /\ \E sender \in Senders, batch \in EqualBatches :
       \E value \in {v \in {getCurrentFee(World) - 1, getCurrentFee(World) + batch[2]} : v >= 0} :
         \E b \in Relevant(sendEqualAmountsETH(World, sender, value, batch[1], Quiet),
                           Short(batch[1], Behaviours(Range(batch[1]) \cup {feeCollector}))) :
           Commit([Call("sendEqualAmountsETH", sender, value) EXCEPT
                     !.recipients = batch[1], !.b = b],
                  sendEqualAmountsETH(World, sender, value, batch[1], b))

SendDifferentAmountsETH ==
  /\ Idle
  /\ \E sender \in Senders, batch \in Batches :
       \E value \in Values(Total(batch[2]) + getCurrentFee(World)) :
         \E b \in Relevant(sendDifferentAmountsETH(World, sender, value, batch[1],
                                                   batch[2], Quiet),
                           Short(batch[1], Behaviours(Range(batch[1])
                                                        \cup {feeCollector, sender}))) :
           Commit([Call("sendDifferentAmountsETH", sender, value) EXCEPT
                     !.recipients = batch[1], !.amounts = batch[2], !.b = b],
                  sendDifferentAmountsETH(World, sender, value, batch[1], batch[2], b))

SendEqualAmountsERC20 ==
  /\ Idle
  /\ \E sender \in Senders, token \in {NULL, TOKEN}, batch \in EqualBatches :
       \E value \in Values(getCurrentFee(World)) :
         \E b \in Relevant(sendEqualAmountsERC20(World, sender, value, token, batch[1],
                                                 batch[2], Quiet),
                           Short(batch[1], TokenBehaviours({feeCollector, sender},
                                                           Range(batch[1])))) :
           Commit([Call("sendEqualAmountsERC20", sender, value) EXCEPT
                     !.token = token, !.recipients = batch[1], !.amount = batch[2],
                     !.b = b],
                  sendEqualAmountsERC20(World, sender, value, token, batch[1], batch[2], b))

SendDifferentAmountsERC20 ==
  /\ Idle
  /\ \E sender \in Senders, token \in {NULL, TOKEN}, batch \in Batches :
       \E value \in Values(getCurrentFee(World)) :
         \E b \in Relevant(sendDifferentAmountsERC20(World, sender, value, token,
                                                     batch[1], batch[2], Quiet),
                           Short(batch[1], TokenBehaviours({feeCollector, sender},
                                                           Range(batch[1])))) :
           Commit([Call("sendDifferentAmountsERC20", sender, value) EXCEPT
                     !.token = token, !.recipients = batch[1], !.amounts = batch[2],
                     !.b = b],
                  sendDifferentAmountsERC20(World, sender, value, token, batch[1],
                                            batch[2], b))

ToggleFees ==
  /\ Idle
  /\ \E sender \in Accounts :
       Commit(Call("toggleFees", sender, 0), toggleFees(World, sender))

SetFlatFee ==
  /\ Idle
  /\ \E sender \in Accounts, newFee \in 0..(MAX_FLAT_FEE + 1) :
       Commit([Call("setFlatFee", sender, 0) EXCEPT !.amount = newFee],
              setFlatFee(World, sender, newFee))

SetFeeCollector ==
  /\ Idle
  /\ \E sender \in Accounts, newCollector \in {NULL, DEPLOYER, BOB} :
       Commit([Call("setFeeCollector", sender, 0) EXCEPT !.target = newCollector],
              setFeeCollector(World, sender, newCollector))

WithdrawETH ==
  /\ Idle
  /\ \E sender \in Accounts, amount \in 0..(MaxBalance + 1) :
       \E b \in Relevant(withdrawETH(World, sender, amount, Quiet), Behaviours({owner})) :
         Commit([Call("withdrawETH", sender, 0) EXCEPT !.amount = amount, !.b = b],
                withdrawETH(World, sender, amount, b))

WithdrawERC20 ==
  /\ Idle
  /\ \E sender \in Accounts, token \in {NULL, TOKEN}, amount \in 0..(MaxTokenBalance + 1) :
       \E b \in Relevant(withdrawERC20(World, sender, token, amount, Quiet),
                         TokenBehaviours({}, {owner}) \ {[Quiet EXCEPT !.pullOk = FALSE]}) :
         Commit([Call("withdrawERC20", sender, 0) EXCEPT
                   !.token = token, !.amount = amount, !.b = b],
                withdrawERC20(World, sender, token, amount, b))

(* a plain transfer of native value to the engine *)
Receive ==
  /\ Idle
  /\ \E sender \in Accounts, value \in 1..MaxExcess :
       Commit(Call("receive", sender, value), receive(World, value))

(* someone sends the engine tokens: IERC20.transfer(engine, amount) *)
TokenReceived ==
  /\ Idle
  /\ tokenBalance < MaxTokenBalance
  /\ tokenBalance' = tokenBalance + 1
  /\ last' = [Call("tokenReceived", ALICE, 0) EXCEPT !.amount = 1, !.pre = World]
  /\ UNCHANGED <<owner, feeCollector, flatFee, feesEnabled, status, balance>>
  /\ UNCHANGED others

(* the transaction is over; the next one may be sent *)
EndTransaction ==
  /\ last.op # "none"
  /\ last' = NoCall
  /\ UNCHANGED <<owner, feeCollector, flatFee, feesEnabled, status, balance, tokenBalance>>
  /\ UNCHANGED others

Next ==
  \/ Deploy
  \/ SendEqualAmountsETH
  \/ SendDifferentAmountsETH
  \/ SendEqualAmountsERC20
  \/ SendDifferentAmountsERC20
  \/ ToggleFees
  \/ SetFlatFee
  \/ SetFeeCollector
  \/ WithdrawETH
  \/ WithdrawERC20
  \/ Receive
  \/ TokenReceived
  \/ EndTransaction

Spec == Init /\ [][Next]_vars

-----------------------------------------------------------------------------
(* The two engines side by side: the minimal engine and the fee-enabled    *)
(* engine are deployed by the same account and then sent the same calls,   *)
(* by the same callers, with the same funding, to receivers that behave in *)
(* the same way, while the fee-enabled engine's fees are disabled.         *)

(* constructor of MultiSend *)
MinimalConstructor(sender) == [owner |-> sender, status |-> NOT_ENTERED, balance |-> 0]

(* both transactions' results become the two contracts' states; mop is the  *)
(* operation as the minimal engine names it                                *)
CommitBoth(call, r, mop, mr) ==
  /\ CommitEngine(call, r)
  /\ mr.w.balance <= MaxBalance
  /\ minimal' = [owner |-> mr.w.owner, status |-> mr.w.status, balance |-> mr.w.balance]
  /\ minimalLast' = [call EXCEPT !.op = mop, !.err = mr.err,
                                 !.events = IF mr.err = "" THEN mr.w.events ELSE <<>>,
                                 !.trace = mr.w.trace, !.pre = MinimalWorld]
  /\ UNCHANGED <<helper, app>>

(* the callers and the recipients include the owner *)
VariantSenders == {BOB, DEPLOYER}

VariantRecipients(n) == RecipientLists(n) \cup {[i \in 1..n |-> DEPLOYER]}

VariantEqualBatches ==
  UNION {VariantRecipients(n) \X (0..(n + 1)) : n \in Sizes}
    \cup UNION {{Long(n, ALICE)} \X {n + 1} : n \in LongSizes}

VariantBatches ==
  Batches \cup UNION {{[i \in 1..n |-> DEPLOYER]} \X AmountLists(n) : n \in Sizes \ {0}}

DeployBoth ==
  /\ owner = NULL
  /\ minimal.owner = NULL
  /\ last.op = "none"
  /\ \E feeCollector_ \in {DEPLOYER, BOB}, flatFee_ \in 0..MAX_FLAT_FEE :
       /\ CommitEngine([Call("constructor", DEPLOYER, 0) EXCEPT !.target = feeCollector_,
                                                                 !.amount = flatFee_],
                       constructor(World, DEPLOYER, feeCollector_, flatFee_))
       /\ minimal' = MinimalConstructor(DEPLOYER)
       /\ minimalLast' = [MinimalNoCall EXCEPT !.op = "constructor", !.sender = DEPLOYER]
       /\ UNCHANGED <<helper, app>>

SendEqualBoth ==
  /\ Idle
  /\ ~feesEnabled
  /\ \E sender \in VariantSenders, batch \in VariantEqualBatches :
       \E b \in Relevant(sendEqualAmountsETH(World, sender, batch[2], batch[1], Quiet),
                         Short(batch[1], Behaviours(Range(batch[1])))) :
         CommitBoth([Call("sendEqualAmountsETH", sender, batch[2]) EXCEPT
                       !.recipients = batch[1], !.b = b],
                    sendEqualAmountsETH(World, sender, batch[2], batch[1], b),
                    "sendEqualAmounts",
                    sendEqualAmounts(MinimalWorld, sender, batch[2], batch[1], b))

SendDifferentBoth ==
  /\ Idle
  /\ ~feesEnabled
  /\ \E sender \in VariantSenders, batch \in VariantBatches :
       \E value \in Values(Total(batch[2])) :
         \E b \in Relevant(sendDifferentAmountsETH(World, sender, value, batch[1],
                                                   batch[2], Quiet),
                           Short(batch[1], Behaviours(Range(batch[1]) \cup {sender}))) :
           CommitBoth([Call("sendDifferentAmountsETH", sender, value) EXCEPT
                         !.recipients = batch[1], !.amounts = batch[2], !.b = b],
                      sendDifferentAmountsETH(World, sender, value, batch[1], batch[2], b),
                      "sendDifferentAmounts",
                      sendDifferentAmounts(MinimalWorld, sender, value, batch[1], batch[2], b))

WithdrawBoth ==
  /\ Idle
  /\ ~feesEnabled
  /\ \E sender \in Accounts, amount \in 0..(MaxBalance + 1) :
       \E b \in Relevant(withdrawETH(World, sender, amount, Quiet), Behaviours({owner})) :
         CommitBoth([Call("withdrawETH", sender, 0) EXCEPT !.amount = amount, !.b = b],
                    withdrawETH(World, sender, amount, b),
                    "withdraw",
                    withdraw(MinimalWorld, sender, amount, b))

(* a plain transfer of the same native value to each engine *)
ReceiveBoth ==
  /\ Idle
  /\ \E sender \in Accounts, value \in 1..MaxExcess :
       CommitBoth(Call("receive", sender, value), receive(World, value),
                  "receive", receive(MinimalWorld, value))

(* both transactions are over *)
EndBoth ==
  /\ last.op # "none"
  /\ last' = NoCall
  /\ minimalLast' = MinimalNoCall
  /\ UNCHANGED <<owner, feeCollector, flatFee, feesEnabled, status, balance, tokenBalance>>
  /\ UNCHANGED <<minimal, helper, app>>

NextVariants ==
  \/ DeployBoth
  \/ SendEqualBoth
  \/ SendDifferentBoth
  \/ WithdrawBoth
  \/ ReceiveBoth
  \/ ToggleFees
  \/ EndBoth

SpecVariants == Init /\ [][NextVariants]_vars


-----------------------------------------------------------------------------
(* The client helper sendEqualAmounts (native asset) beside the engine:    *)
(* the helper reads the fee, submits sendEqualAmountsETH with the total    *)
(* and the fee it read as value, and returns; the transaction is executed  *)
(* later, and the owner's transactions may be executed in between.         *)

(* the recipients and the total handed to the helper *)
ClientBatches == UNION {RecipientLists(n) \X (0..(n + 1)) : n \in Sizes}

(* the helper leaves the engine and the minimal engine alone *)
HelperOnly ==
  UNCHANGED <<owner, feeCollector, flatFee, feesEnabled, status, balance, tokenBalance,
              last, minimal, minimalLast, app>>

(* sendEqualAmounts is called: without recipients it returns a failure,    *)
(* otherwise it reads getCurrentFee() from the engine                      *)
HelperRead ==
  /\ Idle
  /\ helper.pc = "idle"
  /\ \E batch \in ClientBatches :
       helper' = IF Len(batch[1]) = 0
                   THEN [HelperIdle EXCEPT !.pc = "returned", !.recipients = batch[1],
                                           !.totalAmount = batch[2]]
                   ELSE [HelperIdle EXCEPT !.pc = "read", !.fee = getCurrentFee(World),
                                           !.recipients = batch[1],
                                           !.totalAmount = batch[2]]
  /\ HelperOnly

(* the submission resolves: the helper returns success with the hash, the  *)
(* transaction is yet to be executed                                       *)
HelperSubmit ==
  /\ helper.pc = "read"
  /\ helper' = [helper EXCEPT !.pc = "submitted", !.success = TRUE]
  /\ HelperOnly

(* the submission throws (the wallet refuses it): the helper returns a     *)
(* failure and no transaction exists                                       *)
HelperCatch ==
  /\ helper.pc = "read"
  /\ helper' = [helper EXCEPT !.pc = "returned", !.success = FALSE]
  /\ HelperOnly

(* the submitted transaction is executed: sendEqualAmountsETH(recipients)  *)
(* with value totalAmount + the fee that was read                          *)
HelperExecute ==
  /\ Idle
  /\ helper.pc = "submitted"
  /\ \E sender \in Senders :
       \E b \in Relevant(sendEqualAmountsETH(World, sender, helper.totalAmount + helper.fee,
                                             helper.recipients, Quiet),
                         Behaviours(Range(helper.recipients) \cup {feeCollector})) :
         CommitEngine([Call("sendEqualAmountsETH", sender,
                            helper.totalAmount + helper.fee) EXCEPT
                         !.recipients = helper.recipients, !.b = b],
                      sendEqualAmountsETH(World, sender, helper.totalAmount + helper.fee,
                                          helper.recipients, b))
  /\ helper' = [helper EXCEPT !.pc = "done"]
  /\ UNCHANGED <<minimal, minimalLast, app>>

(* the helper may be called again *)
HelperAgain ==
  /\ last.op = "none"
  /\ helper.pc \in {"done", "returned"}
  /\ helper' = HelperIdle
  /\ HelperOnly

NextClient ==
  \/ Deploy
  \/ ToggleFees
  \/ SetFlatFee
  \/ HelperRead
  \/ HelperSubmit
  \/ HelperCatch
  \/ HelperExecute
  \/ HelperAgain
  \/ EndTransaction

SpecClient == Init /\ [][NextClient]_vars

-----------------------------------------------------------------------------
(* The funding page in individual mode: fundAllWallets is an asynchronous  *)
(* loop over a copy of the wallets made when it starts; between two awaits *)
(* it runs without interruption, and at an await the page handles clicks   *)
(* and the other loops' continuations.                                     *)

(* fundAllWallets calls in progress at one time *)
MaxLoops == 2

RemoveAt(s, k) == SubSeq(s, 1, k - 1) \o SubSeq(s, k + 1, Len(s))

(* the first wallet at or after from that the loop does not skip, 0 when   *)
(* the loop is over                                                        *)
NextWallet(updatedWallets, from) ==
  IF \E j \in from..Len(updatedWallets) : updatedWallets[j].status # "success"
    THEN CHOOSE j \in from..Len(updatedWallets) :
           /\ updatedWallets[j].status # "success"
           /\ \A h \in from..(j - 1) : updatedWallets[h].status = "success"
    ELSE 0

(* the loop from index from up to its next await: the next wallet that is  *)
(* not 'success' is marked 'pending' and sendTransaction is awaited; with  *)
(* no such wallet the loop ends                                            *)
LoopOn(updatedWallets, from) ==
  With(NextWallet(updatedWallets, from), LAMBDA j :
    IF j = 0
      THEN [wallets |-> updatedWallets, loop |-> <<>>]
      ELSE With([updatedWallets EXCEPT ![j].status = "pending"], LAMBDA u :
             [wallets |-> u,
              loop |-> << [i |-> j, pc |-> "send", updatedWallets |-> u] >>]))

(* the page leaves the contracts and the helper alone *)
AppOnly ==
  UNCHANGED <<owner, feeCollector, flatFee, feesEnabled, status, balance, tokenBalance,
              last, minimal, minimalLast, helper>>

(* fundAllWallets(), called with the wallets of the current render *)
fundAllWallets(wallets) ==
  With(LoopOn(wallets, 1), LAMBDA r :
    [app EXCEPT !.wallets = r.wallets,
                !.isFunding = r.loop # <<>>,
                !.loops = @ \o r.loop,
                !.overlapped = @ \/ Len(app.loops \o r.loop) >= 2])

(* loop k continues after its await with updatedWallets u *)
Continue(k, u) ==
  With(LoopOn(u, app.loops[k].i + 1), LAMBDA r :
    [app EXCEPT !.wallets = r.wallets,
                !.isFunding = IF r.loop = <<>> THEN FALSE ELSE @,
                !.loops = IF r.loop = <<>> THEN RemoveAt(@, k)
                          ELSE [@ EXCEPT ![k] = r.loop[1]]])

(* a click on Fund All, enabled while isFunding is false *)
FundAllClick ==
  /\ Len(app.wallets) # 0
  /\ ~app.isFunding
  /\ Len(app.loops) < MaxLoops
  /\ app' = fundAllWallets(app.wallets)
  /\ AppOnly

(* a click on Retry Funding of a wallet shown as failed: the wallet is set *)
(* to 'idle' and fundAllWallets() of the same render is called             *)
RetryClick ==
  /\ Len(app.loops) < MaxLoops
  /\ \E idx \in DOMAIN app.wallets :
       /\ app.wallets[idx].status = "error"
       /\ app' = With(LoopOn(app.wallets, 1), LAMBDA r :
                   [app EXCEPT !.wallets = IF r.loop = <<>>
                                             THEN [@ EXCEPT ![idx].status = "idle"]
                                             ELSE r.wallets,
                               !.isFunding = r.loop # <<>>,
                               !.loops = @ \o r.loop,
                               !.overlapped = @ \/ Len(app.loops \o r.loop) >= 2])
  /\ AppOnly

(* signer.sendTransaction resolves: the transaction is sent, its hash is   *)
(* stored and tx.wait() is awaited                                         *)
SendResolves ==
  /\ \E k \in DOMAIN app.loops :
       /\ app.loops[k].pc = "send"
       /\ app' = With([app.loops[k].updatedWallets EXCEPT
                         ![app.loops[k].i] = [status |-> "pending", txHash |-> TRUE]],
                      LAMBDA u :
                        [app EXCEPT !.wallets = u,
                                    !.loops[k] = [@ EXCEPT !.pc = "wait",
                                                           !.updatedWallets = u]])
  /\ AppOnly

(* signer.sendTransaction rejects: no transaction is sent, the wallet is   *)
(* marked 'error' and the loop goes on                                     *)
SendRejects ==
  /\ \E k \in DOMAIN app.loops :
       /\ app.loops[k].pc = "send"
       /\ app' = Continue(k, [app.loops[k].updatedWallets EXCEPT
                                ![app.loops[k].i].status = "error"])
  /\ AppOnly

(* tx.wait() resolves: the transaction is mined, the wallet is marked      *)
(* 'success' and the loop goes on                                          *)
WaitResolves ==
  /\ \E k \in DOMAIN app.loops :
       /\ app.loops[k].pc = "wait"
       /\ app' = [Continue(k, [app.loops[k].updatedWallets EXCEPT
                                 ![app.loops[k].i].status = "success"])
                    EXCEPT !.confirmed = @ \cup {app.loops[k].i}]
  /\ AppOnly

(* tx.wait() rejects: the transaction failed, the wallet is marked 'error' *)
(* and the loop goes on                                                    *)
WaitRejects ==
  /\ \E k \in DOMAIN app.loops :
       /\ app.loops[k].pc = "wait"
       /\ app' = Continue(k, [app.loops[k].updatedWallets EXCEPT
                                ![app.loops[k].i].status = "error"])
  /\ AppOnly

NextApp ==
  \/ FundAllClick
  \/ RetryClick
  \/ SendResolves
  \/ SendRejects
  \/ WaitResolves
  \/ WaitRejects

SpecApp == Init /\ [][NextApp]_vars

-----------------------------------------------------------------------------
(* Observations of the last transaction *)

NotOwnerError == "Caller is not the owner"

ReentrancyError == "ReentrancyGuard: reentrant call"

NativeSends == {"sendEqualAmountsETH", "sendDifferentAmountsETH"}

TokenSends == {"sendEqualAmountsERC20", "sendDifferentAmountsERC20"}

Sends == NativeSends \cup TokenSends

Withdrawals == {"withdrawETH", "withdrawERC20"}

Setters == {"toggleFees", "setFlatFee", "setFeeCollector"}

(* the calls into the engine that receivers made while being paid *)
Inner == SelectSeq(last.trace, LAMBDA e : e.k = "inner")

(* the native transfers the engine attempted, in order *)
Xfers(t) == SelectSeq(t, LAMBDA e : e.k = "xfer")

(* the token transfers the engine attempted, in order *)
Toks(t) == SelectSeq(t, LAMBDA e : e.k = "tok")

AmountOf(t) == Total([i \in DOMAIN t |-> t[i].amt])

(* the state the transaction left, with the events it logged *)
After == [World EXCEPT !.events = last.events]

(* the call c made again from the state it found, the accounts doing b *)
Run(c, b) ==
  CASE c.op = "sendEqualAmountsETH" ->
         sendEqualAmountsETH(c.pre, c.sender, c.value, c.recipients, b)
    [] c.op = "sendDifferentAmountsETH" ->
         sendDifferentAmountsETH(c.pre, c.sender, c.value, c.recipients, c.amounts, b)
    [] c.op = "sendEqualAmountsERC20" ->
         sendEqualAmountsERC20(c.pre, c.sender, c.value, c.token, c.recipients, c.amount, b)
    [] c.op = "sendDifferentAmountsERC20" ->
         sendDifferentAmountsERC20(c.pre, c.sender, c.value, c.token, c.recipients,
                                   c.amounts, b)
    [] c.op = "withdrawETH" -> withdrawETH(c.pre, c.sender, c.amount, b)
    [] c.op = "withdrawERC20" -> withdrawERC20(c.pre, c.sender, c.token, c.amount, b)

(* what Run leaves, as After shows it *)
Left(r) == [r.w EXCEPT !.trace = <<>>, !.events = IF r.err = "" THEN @ ELSE <<>>]

-----------------------------------------------------------------------------
(* C1: a receiver that calls a guarded operation while it is being paid    *)
(* gets an error: the reentrancy error from the four send operations and   *)
(* from a withdrawal it makes as the owner, the not-owner error from a     *)
(* withdrawal it makes as anyone else (onlyOwner is checked before the     *)
(* guard); and the outer call ends as it does when the receivers make no   *)
(* call at all: same result, same state, same events, same transfers.      *)
C1_ReentryFailsOuterUnaffected ==
  /\ \A i \in DOMAIN Inner :
       Inner[i].op \in Sends \cup Withdrawals =>
         /\ ~Inner[i].ok
         /\ Inner[i].err = IF Inner[i].op \in Withdrawals /\ Inner[i].who # last.pre.owner
                           THEN NotOwnerError ELSE ReentrancyError
  /\ (last.op \in Sends \cup Withdrawals /\ last.b.cb = GuardedOps) =>
       LET q == Run(last, [last.b EXCEPT !.cb = <<>>])
       IN  /\ last.err = q.err
           /\ After = Left(q)
           /\ Xfers(last.trace) = Xfers(q.w.trace)
           /\ Toks(last.trace) = Toks(q.w.trace)

(* C1 witness: a batch paid to alice and to bob, bob calling every guarded *)
(* operation on receipt; alice is paid, the call succeeds                  *)
C1_Witness ==
  /\ last.op = "sendDifferentAmountsETH"
  /\ last.err = ""
  /\ last.b.cb = GuardedOps
  /\ \E i \in DOMAIN Inner : Inner[i].err = ReentrancyError /\ Inner[i].who = BOB
  /\ \E i \in DOMAIN Inner : Inner[i].err = NotOwnerError /\ Inner[i].who = BOB
  /\ \E i \in DOMAIN last.trace :
       last.trace[i].k = "xfer" /\ last.trace[i].who = ALICE /\ last.trace[i].ok

(* C1 as the specification words it: the inner call fails with the         *)
(* reentrancy error, whichever guarded operation it is                     *)
C1_AlwaysReentrancyError ==
  \A i \in DOMAIN Inner :
    Inner[i].op \in Sends \cup Withdrawals => Inner[i].err = ReentrancyError

-----------------------------------------------------------------------------
(* What a native settlement call is to attempt *)

Proj(t) == [i \in DOMAIN t |-> <<t[i].who, t[i].amt>>]

Failed(t) == SelectSeq(t, LAMBDA e : ~e.ok)

(* the fee in force when the call was made *)
F == getCurrentFee(last.pre)

N == Len(last.recipients)

FeePart == IF F > 0 THEN << <<last.pre.feeCollector, F>> >> ELSE <<>>

Payouts(recipients, amounts) == [i \in DOMAIN recipients |-> <<recipients[i], amounts[i]>>]

RefundPart(excess) == IF excess > 0 THEN << <<last.sender, excess>> >> ELSE <<>>

(* the share of each recipient of an equal split *)
PerRecipient == (last.value - F) \div N

EqualAmounts == [i \in 1..N |-> PerRecipient]

(* a batch the explicit-amount operations accept *)
Valid(recipients, amounts) ==
  /\ Len(recipients) = Len(amounts)
  /\ Len(recipients) \in 1..MAX_RECIPIENTS
  /\ \A i \in DOMAIN recipients : recipients[i] # NULL
  /\ \A i \in DOMAIN amounts : amounts[i] > 0

(* the TransferFailed events among the events logged *)
TransferFailures ==
  SelectSeq(last.events, LAMBDA e : e.ev = "TransferFailed")

-----------------------------------------------------------------------------
(* C2: in a native settlement call that succeeds, every recipient is       *)
(* attempted once, in order, with its own amount, whatever the earlier     *)
(* payouts returned; each failed transfer is logged as TransferFailed; and *)
(* the engine's balance ends higher by exactly the sum of the failed       *)
(* amounts.                                                                *)
C2_FailedPayoutsRetained ==
  (last.op \in NativeSends /\ last.err = "") =>
    /\ Len(Xfers(last.trace)) >= Len(FeePart) + N
    /\ SubSeq(Proj(Xfers(last.trace)), Len(FeePart) + 1, Len(FeePart) + N)
         = Payouts(last.recipients,
                   IF last.op = "sendEqualAmountsETH" THEN EqualAmounts ELSE last.amounts)
    /\ [i \in DOMAIN TransferFailures |->
          <<TransferFailures[i].who, TransferFailures[i].amt>>]
         = Proj(Failed(Xfers(last.trace)))
    /\ balance = last.pre.balance + AmountOf(Failed(Xfers(last.trace)))

(* C2 restricted to sendDifferentAmountsETH *)
C2_ExplicitAmountsOnly ==
  last.op = "sendDifferentAmountsETH" => C2_FailedPayoutsRetained

-----------------------------------------------------------------------------
(* C3: sendDifferentAmountsETH with funding V: when sum(amounts) + F > V   *)
(* the call aborts and nothing is moved; when the batch is valid and       *)
(* sum(amounts) + F <= V the call succeeds, and what it transfers is the   *)
(* fee, the amounts in order, and V - sum(amounts) - F to the caller (no   *)
(* transfer to the caller when that is 0).                                 *)
C3_ExactRefund ==
  last.op = "sendDifferentAmountsETH" =>
    /\ Total(last.amounts) + F > last.value =>
         /\ last.err # ""
         /\ World = last.pre
         /\ last.events = <<>>
         /\ Xfers(last.trace) = <<>>
    /\ (Valid(last.recipients, last.amounts) /\ Total(last.amounts) + F <= last.value) =>
         /\ last.err = ""
         /\ Proj(Xfers(last.trace))
              = FeePart \o Payouts(last.recipients, last.amounts)
                  \o RefundPart(last.value - Total(last.amounts) - F)

(* C3 witness: a funded batch with a fee and an excess, which is refunded *)
C3_Witness ==
  /\ last.op = "sendDifferentAmountsETH"
  /\ last.err = ""
  /\ F > 0
  /\ last.value - Total(last.amounts) - F > 0
  /\ N = 2

-----------------------------------------------------------------------------
(* C4: in a sendEqualAmountsETH call that succeeds, what is transferred    *)
(* after the fee and the N payouts is the refund to the caller, and        *)
(* V - F - refund = N * perRecipient: the remainder of the division goes   *)
(* back to the caller.                                                     *)
C4_RemainderRefunded ==
  (last.op = "sendEqualAmountsETH" /\ last.err = "") =>
    LET rest == SubSeq(Xfers(last.trace), Len(FeePart) + N + 1, Len(Xfers(last.trace)))
    IN  /\ \A i \in DOMAIN rest : rest[i].who = last.sender
        /\ last.value - F - AmountOf(rest) = N * PerRecipient

-----------------------------------------------------------------------------
Config(w) == <<w.feesEnabled, w.flatFee, w.feeCollector>>

(* C5: toggleFees, setFlatFee, setFeeCollector, withdrawETH and            *)
(* withdrawERC20 called by anyone but the owner fail with the not-owner    *)
(* error and change nothing: not the configuration, not the guard, not a   *)
(* balance; no transfer is attempted and no event is logged. The same      *)
(* error meets a receiver that is not the owner and calls one of them      *)
(* while it is being paid, and a call none of whose receivers is the       *)
(* owner leaves the configuration as it was.                               *)
C5_NotOwnerFails ==
  /\ (last.op \in Setters \cup Withdrawals /\ last.sender # last.pre.owner) =>
       /\ last.err = NotOwnerError
       /\ World = last.pre
       /\ last.events = <<>>
       /\ last.trace = <<>>
  /\ \A i \in DOMAIN Inner :
       (Inner[i].op \in Setters \cup Withdrawals /\ Inner[i].who # last.pre.owner) =>
         ~Inner[i].ok /\ Inner[i].err = NotOwnerError
  /\ (last.op \in Sends /\ \A i \in DOMAIN Inner : Inner[i].who # last.pre.owner) =>
       Config(World) = Config(last.pre)

(* C5 witness: bob, who is not the owner, asks for the balance the engine  *)
(* holds                                                                   *)
C5_Witness ==
  /\ last.op = "withdrawETH"
  /\ last.sender = BOB
  /\ last.pre.owner # BOB
  /\ last.pre.balance > 0
  /\ last.err = NotOwnerError

-----------------------------------------------------------------------------
(* C6: a token settlement call in which the pull from the caller or a      *)
(* transfer to a recipient returns failure aborts: the state is the one    *)
(* the call found (the fee paid and the tokens pulled and forwarded are    *)
(* undone) and no event is logged.                                         *)
C6_TokenFailureAborts ==
  (/\ last.op \in TokenSends
   /\ \E i \in DOMAIN last.trace :
        last.trace[i].k \in {"pull", "tok"} /\ ~last.trace[i].ok) =>
    /\ last.err \in {"Token transfer failed", "Transfer failed"}
    /\ World = last.pre
    /\ last.events = <<>>

(* C6 witness: the fee went to the collector, the tokens were pulled, the  *)
(* first recipient was paid, the transfer to the second failed             *)
C6_Witness ==
  /\ last.op = "sendDifferentAmountsERC20"
  /\ F > 0
  /\ \E i \in DOMAIN last.trace : last.trace[i].k = "xfer" /\ last.trace[i].ok
  /\ \E i \in DOMAIN last.trace : last.trace[i].k = "pull" /\ last.trace[i].ok
  /\ \E i \in DOMAIN last.trace :
       last.trace[i].k = "tok" /\ last.trace[i].ok /\ last.trace[i].who = last.recipients[1]
  /\ \E i \in DOMAIN last.trace :
       last.trace[i].k = "tok" /\ ~last.trace[i].ok /\ last.trace[i].who = last.recipients[2]
  /\ last.err = "Transfer failed"

-----------------------------------------------------------------------------
(* C7: an operation the owner calls from its receive callback while a      *)
(* guarded call is in progress (the guard is ENTERED) fails with the       *)
(* reentrancy error, the setters toggleFees, setFlatFee and                *)
(* setFeeCollector included, and the configuration is the same after a     *)
(* settlement call or a withdrawal as before it.                           *)
C7_SettersGuarded ==
  /\ \A i \in DOMAIN Inner :
       (Inner[i].st = ENTERED /\ Inner[i].who = last.pre.owner) =>
         ~Inner[i].ok /\ Inner[i].err = ReentrancyError
  /\ last.op \in Sends \cup Withdrawals => Config(World) = Config(last.pre)

-----------------------------------------------------------------------------
NonNull(recipients) == \A i \in DOMAIN recipients : recipients[i] # NULL

(* the token does what it is asked *)
TokenObliges ==
  last.b.pullOk /\ \A i \in DOMAIN last.recipients : last.recipients[i] \notin last.b.tokenRejecting

(* apart from its length, the batch of the last call is one the operation  *)
(* accepts, and it is funded                                               *)
OtherwiseValid ==
  CASE last.op = "sendEqualAmountsETH" ->
         NonNull(last.recipients) /\ last.value > F /\ PerRecipient > 0
    [] last.op = "sendDifferentAmountsETH" ->
         Valid(last.recipients, last.amounts) /\ last.value >= Total(last.amounts) + F
    [] last.op = "sendEqualAmountsERC20" ->
         /\ NonNull(last.recipients)
         /\ last.amount \div N > 0
         /\ last.value >= F
         /\ TokenObliges
    [] last.op = "sendDifferentAmountsERC20" ->
         Valid(last.recipients, last.amounts) /\ last.value >= F /\ TokenObliges

(* C8: each of the four settlement operations, called with a token address *)
(* that is not null where it takes one, aborts with "No recipients         *)
(* provided" on a batch of 0 recipients and with "Too many recipients" on  *)
(* a batch of more than 200, and succeeds on an otherwise valid batch of   *)
(* exactly 200, every one of the 200 being paid.                           *)
C8_BatchBounds ==
  (last.op \in Sends /\ (last.op \in TokenSends => last.token # NULL)) =>
    /\ N = 0 => last.err = "No recipients provided"
    /\ N > MAX_RECIPIENTS => last.err = "Too many recipients"
    /\ (N = MAX_RECIPIENTS /\ OtherwiseValid) =>
         /\ last.err = ""
         /\ IF last.op \in NativeSends
            THEN Len(Xfers(last.trace)) >= Len(FeePart) + N
            ELSE Len(Toks(last.trace)) = N /\ Failed(Toks(last.trace)) = <<>>

(* C8 witness: 200 recipients paid their amounts in tokens *)
C8_Witness ==
  /\ last.op = "sendDifferentAmountsERC20"
  /\ N = MAX_RECIPIENTS
  /\ last.err = ""
  /\ Len(Toks(last.trace)) = MAX_RECIPIENTS

-----------------------------------------------------------------------------
(* C9: sendEqualAmountsETH on a batch of 1 to 200 recipients with funding  *)
(* V: when V <= F it aborts for want of funding ("No ETH sent" when V is   *)
(* 0, "Insufficient ETH for fee" otherwise); when V > F and (V - F) \div N *)
(* is 0 it aborts with "Amount per recipient is zero"; otherwise, no       *)
(* recipient being null, it succeeds having attempted after the fee        *)
(* exactly the N recipients in order, each with (V - F) \div N.            *)
C9_EqualSplit ==
  (last.op = "sendEqualAmountsETH" /\ N \in 1..MAX_RECIPIENTS) =>
    /\ last.value <= F =>
         last.err = IF last.value = 0 THEN "No ETH sent" ELSE "Insufficient ETH for fee"
    /\ (last.value > F /\ PerRecipient = 0) => last.err = "Amount per recipient is zero"
    /\ (last.value > F /\ PerRecipient > 0 /\ NonNull(last.recipients)) =>
         /\ last.err = ""
         /\ Proj(Xfers(last.trace)) = FeePart \o Payouts(last.recipients, EqualAmounts)

(* C9 witness: a fee, two recipients, and an amount two does not divide *)
C9_Witness ==
  /\ last.op = "sendEqualAmountsETH"
  /\ last.err = ""
  /\ N = 2
  /\ F > 0
  /\ (last.value - F) % N # 0
  /\ PerRecipient > 0

-----------------------------------------------------------------------------
Invalid(recipients, amounts) ==
  \/ Len(recipients) # Len(amounts)
  \/ \E i \in DOMAIN amounts : amounts[i] = 0
  \/ \E i \in DOMAIN recipients : recipients[i] = NULL

(* C10: sendDifferentAmountsETH and sendDifferentAmountsERC20 abort on a   *)
(* batch whose recipients and amounts differ in length, or that holds an   *)
(* amount of 0 or a null recipient at any position: the state is the one   *)
(* the call found, no transfer (fee, pull or payout) is attempted, no      *)
(* event is logged.                                                        *)
C10_InvalidBatchAborts ==
  (/\ last.op \in {"sendDifferentAmountsETH", "sendDifferentAmountsERC20"}
   /\ Invalid(last.recipients, last.amounts)) =>
    /\ last.err # ""
    /\ World = last.pre
    /\ last.events = <<>>
    /\ last.trace = <<>>

(* C10 witness: a funded batch, a fee in force, the null address second *)
C10_Witness ==
  /\ last.op = "sendDifferentAmountsETH"
  /\ N = 2
  /\ Len(last.amounts) = 2
  /\ last.recipients[1] # NULL
  /\ last.recipients[2] = NULL
  /\ \A i \in DOMAIN last.amounts : last.amounts[i] > 0
  /\ F > 0
  /\ last.value >= Total(last.amounts) + F
  /\ last.err = "Invalid recipient address"

-----------------------------------------------------------------------------
FeeTooHighError == "Fee too high (max 0.1 ETH)"

(* C11: flatFee is at most MAX_FLAT_FEE (0.1 ether) in every state; a      *)
(* construction with a fee above it fails and deploys nothing; setFlatFee  *)
(* by the owner aborts with the fee-too-high error above it, leaving the   *)
(* state as it was, and sets flatFee to any value up to and including it.  *)
C11_FeeCeiling ==
  /\ flatFee <= MAX_FLAT_FEE
  /\ (last.op = "constructor" /\ last.amount > MAX_FLAT_FEE) =>
       /\ last.err = IF last.target = NULL THEN "Invalid fee collector" ELSE FeeTooHighError
       /\ World = last.pre
       /\ owner = NULL
  /\ (last.op = "setFlatFee" /\ last.sender = last.pre.owner) =>
       IF last.amount > MAX_FLAT_FEE
       THEN last.err = FeeTooHighError /\ World = last.pre /\ last.events = <<>>
       ELSE last.err = "" /\ flatFee = last.amount

(* C11 witness: the owner asks for a fee above the ceiling *)
C11_Witness ==
  /\ last.op = "setFlatFee"
  /\ last.sender = owner
  /\ last.amount = MAX_FLAT_FEE + 1
  /\ last.pre.flatFee = MAX_FLAT_FEE
  /\ last.err = FeeTooHighError

-----------------------------------------------------------------------------
(* the native transfers of a settlement call c that succeeds, when fee is  *)
(* charged for collector                                                   *)
ExpectedXfers(c, fee, collector) ==
  LET feePart == IF fee > 0 THEN << <<collector, fee>> >> ELSE <<>>
      refund(excess) == IF excess > 0 THEN << <<c.sender, excess>> >> ELSE <<>>
  IN  CASE c.op = "sendEqualAmountsETH" ->
             feePart \o Payouts(c.recipients,
                                [i \in DOMAIN c.recipients |->
                                   (c.value - fee) \div Len(c.recipients)])
        [] c.op = "sendDifferentAmountsETH" ->
             feePart \o Payouts(c.recipients, c.amounts)
                     \o refund(c.value - Total(c.amounts) - fee)
        [] c.op \in TokenSends -> feePart \o refund(c.value - fee)

(* the MultiTransferETH or MultiTransferERC20 event of a call that succeeds *)
Summary(c) == c.events[Len(c.events)]

(* C12: getCurrentFee() is flatFee when feesEnabled and 0 otherwise; and a *)
(* settlement call that succeeds charges exactly getCurrentFee() of the    *)
(* state it is made in, whatever admin call came just before: that is the  *)
(* fee its summary event reports, and its native transfers are that fee to *)
(* the fee collector (none when it is 0), the payouts, and the refund of   *)
(* what is left of the funding after that fee.                             *)
C12_CurrentFeeCharged ==
  /\ [](getCurrentFee(World) = IF feesEnabled THEN flatFee ELSE 0)
  /\ [][(last'.op \in Sends /\ last'.err = "") =>
          /\ Summary(last').fee = getCurrentFee(World)
          /\ Proj(Xfers(last'.trace))
               = ExpectedXfers(last', getCurrentFee(World), feeCollector)]_vars

(* C12 witness: fees are disabled at construction; here a token settlement *)
(* call has paid the fee the owner enabled and set to the ceiling          *)
C12_Witness ==
  /\ last.op = "sendEqualAmountsERC20"
  /\ last.err = ""
  /\ Summary(last).fee = MAX_FLAT_FEE
  /\ last.pre.feesEnabled
  /\ \E i \in DOMAIN last.trace :
       /\ last.trace[i].k = "xfer"
       /\ last.trace[i].who = last.pre.feeCollector
       /\ last.trace[i].amt = MAX_FLAT_FEE
       /\ last.trace[i].ok

-----------------------------------------------------------------------------
(* the fee was due and its transfer to the fee collector failed *)
FeeTransferFailed ==
  /\ last.op \in Sends
  /\ F > 0
  /\ Xfers(last.trace) # <<>>
  /\ ~Xfers(last.trace)[1].ok

(* C13: when a fee is due and its transfer to the fee collector fails, a   *)
(* settlement call on a batch without null recipient (and, in the token    *)
(* operations, with a token that obliges) still succeeds: it logs          *)
(* TransferFailed(feeCollector, fee) first, attempts every payout and the  *)
(* refund with the amounts it would have used anyway, and the fee stays in *)
(* the engine, whose balance ends at what it was plus the funding minus    *)
(* the transfers that succeeded.                                           *)
C13_FeeFailureNotFatal ==
  (/\ FeeTransferFailed
   /\ NonNull(last.recipients)
   /\ last.op \in TokenSends => TokenObliges) =>
    /\ last.err = ""
    /\ last.events[1] = Event("TransferFailed", last.pre.feeCollector, F, 0, 0)
    /\ Proj(Xfers(last.trace)) = ExpectedXfers(last, F, last.pre.feeCollector)
    /\ Toks(last.trace) = Toks(Run(last, Quiet).w.trace)
    /\ balance = last.pre.balance + last.value
                   - (AmountOf(Xfers(last.trace)) - AmountOf(Failed(Xfers(last.trace))))
    /\ balance >= last.pre.balance + F

(* C13 witness: the fee collector rejects the fee, alice is paid her share *)
C13_Witness ==
  /\ FeeTransferFailed
  /\ last.op = "sendEqualAmountsETH"
  /\ last.err = ""
  /\ Xfers(last.trace)[1].who = last.pre.feeCollector
  /\ \E i \in DOMAIN last.trace :
       last.trace[i].k = "xfer" /\ last.trace[i].who = ALICE /\ last.trace[i].ok

-----------------------------------------------------------------------------
(* what the engine held of the asset the last call withdraws, before it *)
Held == IF last.op = "withdrawETH" THEN last.pre.balance ELSE last.pre.tokenBalance

(* the amount the last withdrawal asked for: all of it when amount is 0 *)
Asked == IF last.amount = 0 THEN Held ELSE last.amount

-----------------------------------------------------------------------------
NoFundsError == IF last.op = "withdrawETH" THEN "No funds to withdraw" ELSE "No tokens to withdraw"

InsufficientBalanceError ==
  IF last.op = "withdrawETH" THEN "Insufficient contract balance" ELSE "Insufficient token balance"

WithdrawalTransferFailedError ==
  IF last.op = "withdrawETH" THEN "Withdrawal failed" ELSE "Token withdrawal failed"

(* the owner does not take what the last withdrawal sends *)
OwnerRefuses ==
  IF last.op = "withdrawETH" THEN last.pre.owner \in last.b.rejecting
  ELSE last.pre.owner \in last.b.tokenRejecting

(* C15: a withdrawal by the owner (of a token that is not null) fails with *)
(* the no-funds error when the engine holds nothing of the asset, else     *)
(* with the insufficient-balance error when the amount asked for exceeds   *)
(* what it holds, else with the transfer-failed error when the transfer to *)
(* the owner fails, and succeeds otherwise. A failed withdrawal leaves the *)
(* state as it found it (balances, configuration, guard released), logs    *)
(* nothing, and no transfer it attempted succeeded.                        *)
C15_WithdrawalFailures ==
  (/\ last.op \in Withdrawals
   /\ last.sender = last.pre.owner
   /\ last.op = "withdrawERC20" => last.token # NULL) =>
    /\ last.err = CASE Held = 0 -> NoFundsError
                    [] Held > 0 /\ last.amount > Held -> InsufficientBalanceError
                    [] Held > 0 /\ last.amount <= Held /\ OwnerRefuses ->
                         WithdrawalTransferFailedError
                    [] OTHER -> ""
    /\ last.err # "" =>
         /\ World = last.pre
         /\ status = NOT_ENTERED
         /\ last.events = <<>>
         /\ Xfers(last.trace) = Failed(Xfers(last.trace))
         /\ Toks(last.trace) = Failed(Toks(last.trace))
         /\ last.err # WithdrawalTransferFailedError => last.trace = <<>>

(* C15 witness: the owner refuses the native value after changing the fee  *)
(* switch from its receive hook, and the withdrawal fails                  *)
C15_Witness ==
  /\ last.op = "withdrawETH"
  /\ last.err = "Withdrawal failed"
  /\ \E i \in DOMAIN last.trace :
       last.trace[i].k = "inner" /\ last.trace[i].op = "toggleFees" /\ last.trace[i].ok
  /\ World = last.pre

-----------------------------------------------------------------------------
(* C16: the owner is the account that deployed the engine and stays so. A  *)
(* construction that succeeds records its sender as owner; once an owner   *)
(* is recorded no step changes it, whatever is called and by whom: owner() *)
(* keeps returning the deployer's address. The fee collector is not fixed  *)
(* in this way: setFeeCollector called by the owner with a non-null        *)
(* address succeeds and makes that address the fee collector, the owner    *)
(* staying who it was.                                                     *)
C16_OwnerImmutable ==
  /\ [](/\ (last.op = "constructor" /\ last.err = "") => owner = last.sender
        /\ owner \in {NULL, DEPLOYER}
        /\ last.op \notin {"none", "constructor"} => owner = last.pre.owner
        /\ (/\ last.op = "setFeeCollector"
            /\ last.sender = last.pre.owner
            /\ last.target # NULL) =>
             last.err = "" /\ feeCollector = last.target /\ owner = last.pre.owner)
  /\ [][owner # NULL => owner' = owner]_vars

(* C16 witness: the owner has replaced the fee collector by another        *)
(* account, and is still the owner                                         *)
C16_Witness ==
  /\ last.op = "setFeeCollector"
  /\ last.err = ""
  /\ feeCollector # last.pre.feeCollector
  /\ feeCollector = last.target
  /\ owner = last.sender /\ owner = last.pre.owner /\ owner = DEPLOYER

-----------------------------------------------------------------------------
InvalidCollectorError == "Invalid fee collector"

(* the engine has been constructed: it has an owner and a fee collector *)
Constructed == owner # NULL /\ feeCollector # NULL

(* C17: owner and feeCollector are null before construction and neither is *)
(* null in any state after it. Construction with a null fee collector      *)
(* fails and constructs nothing, a construction that succeeds records a    *)
(* non-null owner and fee collector, no step makes either null again, and  *)
(* setFeeCollector(null) fails (with the invalid-collector error when the  *)
(* owner calls it) and leaves the fee collector and all the state as it    *)
(* was.                                                                    *)
C17_NeverNull ==
  /\ [](/\ Constructed \/ (owner = NULL /\ feeCollector = NULL)
        /\ (last.op = "constructor" /\ last.target = NULL) =>
             last.err = InvalidCollectorError /\ ~Constructed
        /\ (last.op = "constructor" /\ last.err = "") =>
             Constructed /\ feeCollector = last.target
        /\ last.op \notin {"none", "constructor"} => Constructed
        /\ (last.op = "setFeeCollector" /\ last.target = NULL) =>
             /\ last.err = IF last.sender = last.pre.owner THEN InvalidCollectorError
                           ELSE NotOwnerError
             /\ World = last.pre
             /\ last.events = <<>>)
  /\ [][Constructed => Constructed']_vars

(* C17 witness: the owner has asked for a null fee collector and got the   *)
(* error, the fee collector being who it was                               *)
C17_Witness ==
  /\ last.op = "setFeeCollector"
  /\ last.sender = owner
  /\ last.target = NULL
  /\ last.err = InvalidCollectorError
  /\ feeCollector = last.pre.feeCollector
  /\ feeCollector # NULL

-----------------------------------------------------------------------------
(* C18: after a token settlement call that succeeds and in which no        *)
(* transfer failed, the engine holds as much of the token as before the    *)
(* call: all that was pulled from the caller was forwarded. Violated by    *)
(* sendEqualAmountsERC20, which pulls totalAmount and forwards             *)
(* totalAmount / N, rounded down, to each of the N recipients.             *)
C18_NoTokenRetained ==
  (/\ last.op \in TokenSends
   /\ last.err = ""
   /\ Failed(last.trace) = <<>>) =>
    tokenBalance = last.pre.tokenBalance

(* what does hold: the token settlement call that succeeds retains of the  *)
(* token exactly the remainder of the equal split, and nothing when the    *)
(* amounts are given one by one                                            *)
C18_RemainderRetained ==
  (last.op \in TokenSends /\ last.err = "") =>
    /\ Failed(Toks(last.trace)) = <<>>
    /\ tokenBalance = last.pre.tokenBalance
                        + (IF last.op = "sendEqualAmountsERC20" THEN last.amount % N ELSE 0)

-----------------------------------------------------------------------------
(* the transfers and pulls of the last call that were made from the call   *)
(* itself, not from a call nested in it                                    *)
Moves == SelectSeq(last.trace, LAMBDA e : e.k \in {"xfer", "tok", "pull"})

(* C19: between transactions the guard of a constructed engine is          *)
(* NOT_ENTERED. A guarded call (a settlement or a withdrawal) holds the    *)
(* guard while it moves value, and has released it when it is over,        *)
(* whether it succeeded, succeeded with failed payouts on record, or       *)
(* aborted; so no call made from outside is ever rejected as reentrant.    *)
C19_GuardReleased ==
  /\ owner # NULL => status = NOT_ENTERED
  /\ last.op # "none" => last.err # ReentrancyError
  /\ last.op \in Sends \cup Withdrawals =>
       /\ last.pre.status = NOT_ENTERED
       /\ \A i \in DOMAIN Moves : Moves[i].st = ENTERED
       /\ status = NOT_ENTERED

(* C19 witness: a settlement that succeeded with a failed payout on record *)
(* held the guard during its transfers and has released it                 *)
C19_Witness ==
  /\ last.op \in NativeSends
  /\ last.err = ""
  /\ TransferFailures # <<>>
  /\ Moves # <<>> /\ Moves[1].st = ENTERED
  /\ status = NOT_ENTERED

-----------------------------------------------------------------------------
(* the admin calls that receivers made with success while call c paid them *)
AdminInside(c) ==
  SelectSeq(c.trace, LAMBDA e : e.k = "inner" /\ e.op \in Setters /\ e.ok)

(* the operations that are not admin operations: settlements, withdrawals, *)
(* deposits, and nothing but reads ("none")                                *)
NonAdmin == Sends \cup Withdrawals \cup {"receive", "tokenReceived", "none"}

Settings(w) == <<w.owner, w.feeCollector, w.flatFee, w.feesEnabled>>

(* C20: getCurrentFee() read before and after a step returns the same      *)
(* value unless an admin operation executed in the step, as the call       *)
(* itself or as a call a receiver made while the call paid it. A           *)
(* settlement (successful, with failed payouts, or aborted), a withdrawal, *)
(* a deposit or a read in which no admin operation executed leaves owner,  *)
(* feeCollector, flatFee and feesEnabled as they were; and a call that     *)
(* aborts leaves them as they were whatever executed inside it.            *)
C20_ReadsStable ==
  /\ [](/\ (last.op \in NonAdmin \ {"none"} /\ AdminInside(last) = <<>>) =>
             /\ Settings(World) = Settings(last.pre)
             /\ getCurrentFee(World) = getCurrentFee(last.pre)
        /\ (last.op \notin {"none", "constructor"} /\ last.err # "") =>
             Settings(World) = Settings(last.pre))
  /\ [][(last'.op \in NonAdmin /\ AdminInside(last') = <<>>) =>
          /\ getCurrentFee(World)' = getCurrentFee(World)
          /\ Settings(World)' = Settings(World)]_vars

(* C20 witness: fees are on, a settlement pays a receiver that tries to    *)
(* switch them off and is refused, one payout fails, and the fee read      *)
(* after the call is the fee read before it                                *)
C20_Witness ==
  /\ last.op \in NativeSends
  /\ last.err = ""
  /\ last.pre.feesEnabled /\ last.pre.flatFee > 0
  /\ TransferFailures # <<>>
  /\ \E i \in DOMAIN last.trace :
       last.trace[i].k = "inner" /\ last.trace[i].op = "toggleFees" /\ ~last.trace[i].ok
  /\ AdminInside(last) = <<>>
  /\ getCurrentFee(World) = getCurrentFee(last.pre)
  /\ Settings(World) = Settings(last.pre)

-----------------------------------------------------------------------------
(* the last call logged event e as its last event *)
LoggedLast(e) == last.events # <<>> /\ Summary(last) = e

(* the change event a setter that succeeded owes *)
ChangeEvent ==
  CASE last.op = "toggleFees" ->
         Event("FeesToggled", NULL, IF feesEnabled THEN 1 ELSE 0, 0, 0)
    [] last.op = "setFlatFee" -> Event("FlatFeeUpdated", NULL, last.amount, 0, 0)
    [] last.op = "setFeeCollector" -> Event("FeeCollectorUpdated", last.target, 0, 0, 0)

(* the part of C21 about the setters and withdrawETH, which holds: a       *)
(* setter that succeeds logs its change event with the new value, which is *)
(* the value now stored, and withdrawETH that succeeds logs                *)
(* Withdrawal(owner, amount transferred)                                   *)
C21_NativeAndSetters ==
  /\ (last.op \in Setters /\ last.err = "") =>
       /\ last.events = << ChangeEvent >>
       /\ last.op = "toggleFees" => feesEnabled = ~last.pre.feesEnabled
       /\ last.op = "setFlatFee" => flatFee = last.amount
       /\ last.op = "setFeeCollector" => feeCollector = last.target
  /\ (last.op = "withdrawETH" /\ last.err = "") =>
       LoggedLast(Event("Withdrawal", last.pre.owner, Asked, 0, 0))

(* C21: every withdrawal that succeeds, withdrawETH and withdrawERC20      *)
(* alike, logs Withdrawal(owner, amount) with the amount transferred (the  *)
(* whole balance held when 0 was asked for), and every setter that         *)
(* succeeds logs its change event with the new value. Violated by          *)
(* withdrawERC20, which logs nothing.                                      *)
C21_ChangesLogged ==
  /\ C21_NativeAndSetters
  /\ (last.op \in Withdrawals /\ last.err = "") =>
       LoggedLast(Event("Withdrawal", last.pre.owner, Asked, 0, 0))

-----------------------------------------------------------------------------
(* the native transfers of the last call that went to account a *)
XfersTo(a) == SelectSeq(Xfers(last.trace), LAMBDA e : e.who = a)

(* the native value the last settlement call owes back to its caller *)
Excess ==
  CASE last.op = "sendEqualAmountsETH" -> 0
    [] last.op = "sendDifferentAmountsETH" -> last.value - Total(last.amounts) - F
    [] OTHER -> last.value - F

(* the fee collector is neither paid by the batch nor the caller *)
CollectorApart ==
  /\ last.pre.feeCollector # last.sender
  /\ \A i \in DOMAIN last.recipients : last.recipients[i] # last.pre.feeCollector

(* C22: a settlement call with a nonzero fee attempts the fee transfer     *)
(* once, whatever the number of recipients, and before anything else it    *)
(* moves: the first transfer or pull of the call is the transfer of the    *)
(* fee to the fee collector, a call that succeeds has made it, and the     *)
(* native transfers of a call that succeeds number one for the fee, one    *)
(* per recipient on the native path and none on the token path, and one    *)
(* for the refund if any. When the fee collector is neither a recipient    *)
(* nor the caller it is sent value at most once, and never with a zero     *)
(* fee.                                                                    *)
C22_FeeOnceFirst ==
  last.op \in Sends =>
    /\ (F > 0 /\ Moves # <<>>) =>
         /\ Moves[1].k = "xfer"
         /\ Moves[1].who = last.pre.feeCollector
         /\ Moves[1].amt = F
    /\ (F > 0 /\ last.err = "") => Moves # <<>>
    /\ last.err = "" =>
         Len(Xfers(last.trace)) = Len(FeePart) + (IF last.op \in NativeSends THEN N ELSE 0)
                                    + Len(RefundPart(Excess))
    /\ CollectorApart =>
         /\ Len(XfersTo(last.pre.feeCollector)) <= 1
         /\ F = 0 => XfersTo(last.pre.feeCollector) = <<>>
         /\ (F > 0 /\ last.err = "") => Len(XfersTo(last.pre.feeCollector)) = 1

(* C22 witness: a token settlement for two recipients with a fee: the fee  *)
(* transfer, once, then the pull, then the two token transfers             *)
C22_Witness ==
  /\ last.op = "sendDifferentAmountsERC20"
  /\ last.err = ""
  /\ F > 0 /\ N = 2
  /\ CollectorApart
  /\ Len(Moves) >= 4
  /\ Moves[1].k = "xfer" /\ Moves[1].who = last.pre.feeCollector
  /\ Moves[2].k = "pull" /\ Moves[3].k = "tok" /\ Moves[4].k = "tok"
  /\ Len(XfersTo(last.pre.feeCollector)) = 1

-----------------------------------------------------------------------------
SummaryNames == {"MultiTransferETH", "MultiTransferERC20", "MultiTransfer"}

(* the batch-summary events call c logged *)
Summaries(c) == SelectSeq(c.events, LAMBDA e : e.ev \in SummaryNames)

(* call c logged one summary event, and that was the last thing it did:    *)
(* after every transfer, pull and TransferFailed event                     *)
SummaryLast(c) ==
  /\ Len(Summaries(c)) = 1
  /\ c.trace # <<>>
  /\ c.trace[Len(c.trace)].k = "emit"
  /\ c.trace[Len(c.trace)].op \in SummaryNames

(* settlement call c logged its summary as C23 has it *)
SummaryInOrder(c) ==
  IF c.err = "" THEN SummaryLast(c) ELSE Summaries(c) = <<>>

(* the part of C23 about the fee-enabled engine, which holds *)
C23_FeeEnabledSummaryLast == last.op \in Sends => SummaryInOrder(last)

(* C23: a settlement call that succeeds logs exactly one summary event,    *)
(* after the fee collection, after every transfer to a recipient and after *)
(* the refund of the excess; a call that aborts logs none. This for the    *)
(* settlement operations of both engines. Violated by the minimal engine's *)
(* sendDifferentAmounts, which logs the summary and then refunds.          *)
C23_SummaryLast ==
  /\ C23_FeeEnabledSummaryLast
  /\ minimalLast.op \in {"sendEqualAmounts", "sendDifferentAmounts"} =>
       SummaryInOrder(minimalLast)

-----------------------------------------------------------------------------
(* C24: a settlement call, with all that the receivers it pays call back   *)
(* into the engine, leaves the engine's native balance no lower than it    *)
(* found it, whether it succeeds or aborts; and the only step that lowers  *)
(* the balance is a withdrawETH that the owner sent and that succeeded.    *)
C24_BalanceKept ==
  /\ [](last.op \in Sends => balance >= last.pre.balance)
  /\ [][balance' < balance =>
          /\ last'.op = "withdrawETH"
          /\ last'.sender = owner
          /\ last'.err = ""]_vars

(* C24 witness: the engine holds funds, a batch pays the owner its fee,    *)
(* the owner tries to withdraw from its receive hook and is refused, and   *)
(* the funds are still there                                               *)
C24_Witness ==
  /\ last.op \in Sends
  /\ last.err = ""
  /\ last.pre.balance > 0
  /\ \E i \in DOMAIN last.trace :
       /\ last.trace[i].k = "inner"
       /\ last.trace[i].op = "withdrawETH"
       /\ last.trace[i].who = owner
       /\ last.trace[i].err = ReentrancyError
  /\ balance >= last.pre.balance

-----------------------------------------------------------------------------
(* the native transfers of call c that succeeded *)
Delivered(c) == SelectSeq(Xfers(c.trace), LAMBDA e : e.ok)

(* the operations that refund the excess of the funding *)
Refunding ==
  {"sendDifferentAmountsETH", "sendEqualAmountsERC20", "sendDifferentAmountsERC20",
   "sendDifferentAmounts"}

(* the excess of call c's funding over what it owes, the fee being fee *)
ExcessOf(c, fee) ==
  IF c.op \in TokenSends THEN c.value - fee ELSE c.value - Total(c.amounts) - fee

(* the native transfers call c owes, in the order of the code, the refund  *)
(* included                                                                *)
Owed(c, fee, collector) ==
  (IF fee > 0 THEN << <<collector, fee>> >> ELSE <<>>)
    \o (IF c.op \in TokenSends THEN <<>> ELSE Payouts(c.recipients, c.amounts))
    \o (IF ExcessOf(c, fee) > 0 THEN << <<c.sender, ExcessOf(c, fee)>> >> ELSE <<>>)

(* call c attempted all it owes, an excess was due back to the caller, and *)
(* the refund, its last transfer, failed                                   *)
RefundFailed(c, fee, collector) ==
  /\ c.op \in Refunding
  /\ Len(c.recipients) = Len(c.amounts) \/ c.op \in TokenSends
  /\ ExcessOf(c, fee) > 0
  /\ Proj(Xfers(c.trace)) = Owed(c, fee, collector)
  /\ ~Xfers(c.trace)[Len(Xfers(c.trace))].ok

(* what C25 says of a call c whose refund failed, bal being the balance    *)
(* the engine is left with                                                 *)
RefundFailureKept(c, fee, bal) ==
  /\ c.err = ""
  /\ \E i \in DOMAIN c.events :
       /\ c.events[i] = Event("TransferFailed", c.sender, ExcessOf(c, fee), 0, 0)
       /\ \A j \in (i + 1)..Len(c.events) : c.events[j].ev \in SummaryNames
  /\ bal = c.pre.balance + c.value - AmountOf(Delivered(c))
  /\ bal >= c.pre.balance + ExcessOf(c, fee)

(* C25: when the refund of the excess to the caller fails, in either       *)
(* engine, the call succeeds all the same: TransferFailed(caller, excess)  *)
(* is the last failure it logs, the payouts delivered stay delivered, and  *)
(* the engine's balance is what it held plus the funding less the          *)
(* transfers delivered, so the excess is in it. From there the balance of  *)
(* either engine goes down only by a withdrawal of its owner that          *)
(* succeeds.                                                               *)
C25_RefundFailureNotFatal ==
  /\ [](/\ RefundFailed(last, F, last.pre.feeCollector) =>
             RefundFailureKept(last, F, balance)
        /\ RefundFailed(minimalLast, 0, NULL) =>
             RefundFailureKept(minimalLast, 0, minimal.balance))
  /\ [][/\ balance' < balance =>
             last'.op = "withdrawETH" /\ last'.sender = owner /\ last'.err = ""
        /\ minimal'.balance < minimal.balance =>
             /\ minimalLast'.op = "withdraw"
             /\ minimalLast'.sender = minimal.owner
             /\ minimalLast'.err = ""]_vars

(* C25 witness: in both engines the caller has rejected the refund of the  *)
(* excess after alice was paid                                             *)
C25_Witness ==
  /\ RefundFailed(last, F, last.pre.feeCollector)
  /\ RefundFailed(minimalLast, 0, NULL)
  /\ last.recipients = <<ALICE>>
  /\ Len(Delivered(last)) = 1 /\ Len(Delivered(minimalLast)) = 1
  /\ balance = last.pre.balance + ExcessOf(last, F)
  /\ minimal.balance = minimalLast.pre.balance + ExcessOf(minimalLast, 0)

-----------------------------------------------------------------------------
(* the operation of the minimal engine that corresponds to an operation of *)
(* the fee-enabled engine                                                  *)
Counterpart(op) ==
  CASE op = "sendEqualAmountsETH" -> "sendEqualAmounts"
    [] op = "sendDifferentAmountsETH" -> "sendDifferentAmounts"
    [] op = "withdrawETH" -> "withdraw"
    [] OTHER -> op

(* the last step sent the same call to both engines, the fee-enabled one   *)
(* having its fees disabled, and both held the same balance                *)
SameCall ==
  /\ last.op \in {"sendEqualAmountsETH", "sendDifferentAmountsETH", "withdrawETH"}
  /\ minimalLast.op = Counterpart(last.op)
  /\ ~last.pre.feesEnabled
  /\ minimalLast.sender = last.sender /\ minimalLast.value = last.value
  /\ minimalLast.recipients = last.recipients /\ minimalLast.amounts = last.amounts
  /\ minimalLast.amount = last.amount /\ minimalLast.b = last.b
  /\ minimalLast.pre.balance = last.pre.balance
  /\ minimalLast.pre.owner = last.pre.owner

(* C27: sent the same call while its fees are disabled, the fee-enabled    *)
(* engine aborts exactly when the minimal engine aborts, and with the same *)
(* message; both attempt the same native transfers, to the same accounts,  *)
(* of the same amounts, with the same outcome, so every recipient, the     *)
(* caller and the owner receive the same; and both engines are left with   *)
(* the same balance, which is the balance before the call when they        *)
(* abort.                                                                  *)
C27_FeesOffRefinesMinimal ==
  /\ owner # NULL => (minimal.balance = balance /\ minimal.owner = owner)
  /\ SameCall =>
       /\ (last.err = "") <=> (minimalLast.err = "")
       /\ last.err = minimalLast.err
       /\ Xfers(last.trace) = Xfers(minimalLast.trace)
       /\ Proj(Delivered(last)) = Proj(Delivered(minimalLast))
       /\ [i \in DOMAIN TransferFailures |-> TransferFailures[i]]
            = SelectSeq(minimalLast.events, LAMBDA e : e.ev = "TransferFailed")
       /\ last.err # "" => balance = last.pre.balance
       /\ status = minimal.status

(* C27 witness: the owner sends a batch with an excess to both engines,    *)
(* bob rejects his payout, and the owner's receive hook switches the fees  *)
(* of the fee-enabled engine on while it takes the refund; both engines    *)
(* paid the same and hold the same                                         *)
C27_Witness ==
  /\ SameCall
  /\ last.op = "sendDifferentAmountsETH"
  /\ last.err = "" /\ minimalLast.err = ""
  /\ last.sender = owner
  /\ TransferFailures # <<>>
  /\ Delivered(last) # <<>>
  /\ AdminInside(last) # <<>>
  /\ feesEnabled
  /\ balance = minimal.balance /\ balance > last.pre.balance

-----------------------------------------------------------------------------
(* the toggleFees calls that succeeded in call c: the call itself, or      *)
(* calls the owner made from its receive hook while c paid it              *)
Toggled(c) ==
  \/ c.op = "toggleFees" /\ c.err = ""
  \/ \E i \in DOMAIN c.trace :
       c.trace[i].k = "inner" /\ c.trace[i].op = "toggleFees" /\ c.trace[i].ok

(* C28: a construction that succeeds leaves the fees disabled whatever     *)
(* flatFee it was given, and getCurrentFee() is then 0. While the fees are *)
(* disabled a settlement call sends no fee: its first transfer is not the  *)
(* fee, and a fee collector that is neither a recipient nor the caller is  *)
(* sent nothing. Only a toggleFees of the owner that succeeds changes      *)
(* feesEnabled, and it flips it: toggling twice from any state gives back  *)
(* the getCurrentFee() of that state.                                      *)
C28_FeesStartDisabled ==
  /\ [](/\ (last.op = "constructor" /\ last.err = "") =>
             /\ ~feesEnabled
             /\ flatFee = last.amount
             /\ getCurrentFee(World) = 0
        /\ ~feesEnabled => getCurrentFee(World) = 0
        /\ (last.op \in Sends /\ ~last.pre.feesEnabled) =>
             /\ F = 0
             /\ Len(Xfers(last.trace)) <= (IF last.op \in NativeSends THEN N ELSE 0) + 1
             /\ CollectorApart => XfersTo(last.pre.feeCollector) = <<>>
             /\ last.err = "" => Summary(last).fee = 0
        /\ (last.op = "toggleFees" /\ last.err = "") =>
             /\ last.sender = last.pre.owner
             /\ feesEnabled = ~last.pre.feesEnabled
        /\ owner # NULL =>
             /\ toggleFees(World, owner).err = ""
             /\ toggleFees(toggleFees(World, owner).w, owner).err = ""
             /\ getCurrentFee(toggleFees(toggleFees(World, owner).w, owner).w)
                  = getCurrentFee(World)
             /\ flatFee > 0 =>
                  getCurrentFee(toggleFees(World, owner).w) # getCurrentFee(World))
  /\ [][/\ feesEnabled' # feesEnabled => (Toggled(last') /\ owner # NULL)
        /\ (last'.op = "toggleFees" /\ owner # NULL) =>
             feesEnabled' = toggleFees(World, last'.sender).w.feesEnabled]_vars

(* C28 witness: the engine was constructed with a nonzero flatFee, the     *)
(* fees are disabled, and a batch went through without any transfer to the *)
(* fee collector                                                           *)
C28_Witness ==
  /\ last.op = "sendDifferentAmountsETH"
  /\ last.err = ""
  /\ last.pre.flatFee = MAX_FLAT_FEE
  /\ ~last.pre.feesEnabled
  /\ CollectorApart
  /\ XfersTo(last.pre.feeCollector) = <<>>
  /\ Summary(last).fee = 0
  /\ getCurrentFee(last.pre) = 0

-----------------------------------------------------------------------------
-----------------------------------------------------------------------------
(* The helper's transaction, once executed *)

HelperDone == helper.pc = "done" /\ last.op = "sendEqualAmountsETH"

(* what the engine attempted to pay to the recipients, in order *)
RecipientPayouts ==
  SubSeq(Proj(Xfers(last.trace)), Len(FeePart) + 1, Len(FeePart) + N)

(* every recipient paid the share of the requested total *)
RequestedShares ==
  [i \in 1..N |-> <<helper.recipients[i], helper.totalAmount \div N>>]

(* C26 (as claimed): when the helper sendEqualAmounts has reported success *)
(* for N recipients and a requested total T and its transaction has been   *)
(* executed successfully, the engine paid each recipient exactly T / N,    *)
(* whatever the owner did between the helper's fee read and the execution. *)
C26_RequestedSharePaid ==
  (HelperDone /\ helper.success /\ last.err = "") =>
    RecipientPayouts = RequestedShares

(* C26 (what holds): the recipients are paid T / N each when the fee in    *)
(* force at the execution is the fee the helper read; otherwise each is    *)
(* paid (T + fee read - fee in force) / N, or the call aborts.             *)
C26_ShareOfWhatIsLeft ==
  HelperDone =>
    /\ last.value = helper.totalAmount + helper.fee
    /\ last.err = "" =>
         /\ RecipientPayouts
              = [i \in 1..N |-> <<helper.recipients[i], (last.value - F) \div N>>]
         /\ F = helper.fee => RecipientPayouts = RequestedShares
    /\ last.value <= F => last.err # ""

C26_Witness ==
  /\ HelperDone /\ helper.success /\ last.err = ""
  /\ helper.fee = 2 /\ F = 0 /\ helper.totalAmount = 1
  /\ RecipientPayouts = << <<ALICE, 3>> >>


-----------------------------------------------------------------------------
(* The funding transactions of the page *)

(* the loops awaiting the mining of a transaction sent to wallet i *)
Awaited(i) == {k \in DOMAIN app.loops : app.loops[k].pc = "wait" /\ app.loops[k].i = i}

(* the funding transactions to wallet i that are sent and have not failed *)
Live(i) == Cardinality(Awaited(i)) + (IF i \in app.confirmed THEN 1 ELSE 0)

SuccessKept ==
  \A i \in DOMAIN app.wallets :
    app.wallets[i].status = "success" => app'.wallets[i].status = "success"

(* C30 (as claimed): whatever the interleaving of the running funding      *)
(* loops with Fund All and Retry clicks, no wallet has a second funding    *)
(* transaction sent to it while one sent earlier is pending or mined, and  *)
(* a wallet marked 'success' stays marked 'success'.                       *)
C30_FundedOnce ==
  /\ [](\A i \in DOMAIN app.wallets : Live(i) <= 1)
  /\ [][SuccessKept]_vars

(* C30: the first half alone *)
C30_NoSecondTransaction == \A i \in DOMAIN app.wallets : Live(i) <= 1

(* C30: the second half alone *)
C30_SuccessKept == [][SuccessKept]_vars

(* C30 (what holds): as long as no two loops have been in progress at     *)
(* once, no wallet has two funding transactions that did not fail, a       *)
(* wallet whose transaction is mined is marked 'success', and a loop       *)
(* starts a transaction only for a wallet that has none pending or mined.  *)
C30_OneLoopFundedOnce ==
  ~app.overlapped =>
    /\ \A i \in DOMAIN app.wallets : Live(i) <= 1
    /\ \A i \in app.confirmed : app.wallets[i].status = "success"
    /\ \A k \in DOMAIN app.loops :
         app.loops[k].pc = "send" => Live(app.loops[k].i) = 0

(* a second transaction is awaited for wallet 2, whose first is mined and  *)
(* which the page shows as funded                                          *)
C30_Witness ==
  /\ 2 \in app.confirmed
  /\ Awaited(2) # {}
  /\ app.wallets[1].status = "success"

(* a wallet's first transaction is mined while no two loops have been in   *)
(* progress at once                                                        *)
C30_OneLoopWitness ==
  /\ ~app.overlapped
  /\ app.confirmed = {2}
  /\ app.wallets[1].status = "error"
  /\ app.wallets[2].status = "success"

====
